---- MODULE Spec2Model ----
(***************************************************************************)
(* A model of the livestream-export pipeline of zulfaza/ctools:            *)
(* the format registry and its detect probes, the data-shape detector,     *)
(* the value cleaners and cleanAndCopyData, and the orchestrator           *)
(* (processExcelFile / POST) that drives them.                             *)
(*                                                                         *)
(* Cell texts are TLA+ strings; JavaScript's toLowerCase / includes /      *)
(* replace / trim / parseFloat are computed character by character.        *)
(* Numbers are decimals m / 10^e kept in lowest terms (e minimal).         *)
(***************************************************************************)
EXTENDS Integers, Sequences, FiniteSets, TLC

VARIABLES
    registry,     \* EXCEL_FORMATS_REGISTRY: sequence of definition names
    warnings,     \* number of console.warn calls made by registerExcelFormat
    loaded,       \* module initialisation: 0 = nothing registered yet, 2 = done
    ws,           \* the input worksheet of the current call / file
    call,         \* the library function applied last (SpecDetect)
    ret,          \* what that call returned
    systemOffset, \* UTC offset, in hours, of the time zone the server runs in
    request,      \* the POST request: its files, processedFiles, its response
    pc,           \* position of processExcelFile in the current file
    job,          \* local variables of processExcelFile
    workbook,     \* outputWorkbook: its sheets in addWorksheet order, their cells
    steps         \* the steps processExcelFile has completed for the current file

\* the variables only the orchestrator writes
pipelineVars == <<systemOffset, request, pc, job, workbook, steps>>

vars == <<registry, warnings, loaded, ws, call, ret, systemOffset, request, pc, job,
          workbook, steps>>

-----------------------------------------------------------------------------
(* Bounds of the model *)

\* leading title rows put before the header block (header may fall below row 10)
MaxLead == 10
\* data rows generated below the header block
MaxData == 2
\* cap on the console.warn counter
MaxWarnings == 2

-----------------------------------------------------------------------------
(* JavaScript strings *)

LowerChar(c) ==
    CASE c = "A" -> "a" [] c = "B" -> "b" [] c = "C" -> "c" [] c = "D" -> "d"
      [] c = "E" -> "e" [] c = "F" -> "f" [] c = "G" -> "g" [] c = "H" -> "h"
      [] c = "I" -> "i" [] c = "J" -> "j" [] c = "K" -> "k" [] c = "L" -> "l"
      [] c = "M" -> "m" [] c = "N" -> "n" [] c = "O" -> "o" [] c = "P" -> "p"
      [] c = "Q" -> "q" [] c = "R" -> "r" [] c = "S" -> "s" [] c = "T" -> "t"
      [] c = "U" -> "u" [] c = "V" -> "v" [] c = "W" -> "w" [] c = "X" -> "x"
      [] c = "Y" -> "y" [] c = "Z" -> "z" [] OTHER -> c

RECURSIVE LowerChars(_)
LowerChars(s) ==
    IF Len(s) = 0 THEN ""
    ELSE LowerChar(SubSeq(s, 1, 1)) \o LowerChars(SubSeq(s, 2, Len(s)))

\* whether needle occurs in s at some position
OccursIn(s, needle) ==
    \E i \in 1..(Len(s) - Len(needle) + 1) : SubSeq(s, i, i + Len(needle) - 1) = needle

-----------------------------------------------------------------------------
(* Cell values: null, a string, or a number m / 10^e *)

Null == [t |-> "null", s |-> "", m |-> 0, e |-> 0]
Str(x) == [t |-> "str", s |-> x, m |-> 0, e |-> 0]
Num(x) == [t |-> "num", s |-> "", m |-> x, e |-> 0]
Dec(x, k) == [t |-> "num", s |-> "", m |-> x, e |-> k]

Digit(d) == SubSeq("0123456789", d + 1, d + 1)

RECURSIVE NatToString(_)
NatToString(n) ==
    IF n < 10 THEN Digit(n) ELSE NatToString(n \div 10) \o Digit(n % 10)

RECURSIVE Pow10(_)
Pow10(k) == IF k = 0 THEN 1 ELSE 10 * Pow10(k - 1)

RECURSIVE PadFrac(_, _)
PadFrac(n, k) ==
    IF k = 0 THEN "" ELSE PadFrac(n \div 10, k - 1) \o Digit(n % 10)

\* Number.prototype.toString for a decimal m / 10^e
NumToString(v) ==
    LET a == IF v.m < 0 THEN -v.m ELSE v.m
        body == IF v.e = 0 THEN NatToString(a)
                ELSE NatToString(a \div Pow10(v.e)) \o "." \o PadFrac(a % Pow10(v.e), v.e)
    IN  IF v.m < 0 THEN "-" \o body ELSE body

\* JavaScript truthiness of a cell value: null, "" and 0 are falsy
Truthy(v) ==
    CASE v.t = "null" -> FALSE
      [] v.t = "str" -> v.s # ""
      [] v.t = "num" -> v.m # 0
      [] OTHER -> TRUE

\* value.toString()
ValueToString(v) ==
    CASE v.t = "str" -> v.s
      [] v.t = "num" -> NumToString(v)
      [] OTHER -> ""

-----------------------------------------------------------------------------
(* The rows input worksheets are built from *)

\* rows that may stand in a header block
HdrTiktok == <<Str("Livestream"), Str("Start time"), Str("Duration"), Str("Gross revenue")>>
HdrTiktokId == <<Str("Streaming langsung"), Str("Waktu mulai"), Str("Durasi")>>
HdrTiktokPartial == <<Str("Livestream"), Str("Start time"), Str("Length")>>
HdrShopeeMonthly ==
    <<Str("Periode Data"), Str("User Id"), Str("No."), Str("Nama Livestream"),
      Str("Start Time"), Str("Durasi")>>
HdrShopeeDaily ==
    <<Str("Periode Data"), Str("User Id"), Str("Penjualan(Pesanan Dibuat)"),
      Str("Penjualan(Pesanan Siap Dikirim)")>>
HdrShopeeEnglish ==
    <<Str("Data Period"), Str("User Id"), Str("Sales(Placed Order)"),
      Str("Sales(Confirmed Order)")>>

HeaderRows ==
    {HdrTiktok, HdrTiktokId, HdrTiktokPartial, HdrShopeeMonthly, HdrShopeeDaily,
     HdrShopeeEnglish}

\* a header block: no row, one row, or two rows
HeaderBlocks ==
    {<<>>} \cup {<<h>> : h \in HeaderRows}
           \cup {<<h1, h2>> : h1 \in HeaderRows, h2 \in HeaderRows}

\* a title row above the header block
TitleRow == <<Str("Report")>>

\* rows below the header block, by what their anchor cells A and B hold
RowFull == <<Str("Live A"), Str("2025-11-01 10:00"), Num(3600)>>
RowOnlyA == <<Str("Live B")>>
RowOnlyB == <<Null, Str("2025-11-02 09:30")>>
RowEmptyStrings == <<Str(""), Str(""), Str("note")>>
RowZero == <<Num(0), Null, Num(12)>>
RowBlank == <<>>

AnchorRows == {RowFull, RowOnlyA, RowOnlyB, RowEmptyStrings, RowZero, RowBlank}

-----------------------------------------------------------------------------
(* JavaScript string methods, computed character by character *)

\* String.prototype.toLowerCase
toLowerCase(s) == LowerChars(s)

\* String.prototype.includes
includes(s, needle) == OccursIn(s, needle)

\* cell.value?.toString().toLowerCase() || ""
LowerText(v) == IF v.t = "null" THEN "" ELSE toLowerCase(ValueToString(v))

-----------------------------------------------------------------------------
(* Worksheets: a sequence of rows, each a sequence of cells; a cell that   *)
(* was never written reads as null (ExcelJS getCell creates it empty).     *)

getCell(w, row, col) ==
    IF row \in 1..Len(w) /\ col \in 1..Len(w[row]) THEN w[row][col] ELSE Null

-----------------------------------------------------------------------------
(* Format definitions and their detect probes *)

\* "return null" of a detect probe; also an omitted (undefined) startRow argument
NullRow == 0

\* for (let row = 1; row <= 10; row++) in tiktokFormat.detect / shopeeFormat.detect
TiktokScanRows == 10
ShopeeScanRows == 10

\* startRow: 2, // Default fallback
DefaultStartRow == 2

\* column A carries the periode-data marker
HasPeriodeMarker(valueA) ==
    includes(valueA, "periode data") \/ includes(valueA, "data period")

TiktokHeaderRow(w, row) ==
    LET valueA == LowerText(getCell(w, row, 1))
        valueB == LowerText(getCell(w, row, 2))
        valueC == LowerText(getCell(w, row, 3))
    IN  /\ includes(valueA, "livestream") \/ includes(valueA, "streaming langsung")
        /\ includes(valueB, "start time") \/ includes(valueB, "waktu mulai")
        /\ includes(valueC, "duration") \/ includes(valueC, "durasi")

\* a scan that also probes row 11
RECURSIVE tiktokScanEleven(_, _)
tiktokScanEleven(w, row) ==
    IF row > TiktokScanRows + 1 THEN NullRow
    ELSE IF TiktokHeaderRow(w, row) THEN row + 1
    ELSE tiktokScanEleven(w, row + 1)

tiktokDetectEleven(w) == tiktokScanEleven(w, 1)

RECURSIVE tiktokScan(_, _)
tiktokScan(w, row) ==
    IF row > TiktokScanRows THEN NullRow
    ELSE IF TiktokHeaderRow(w, row) THEN row + 1
    ELSE tiktokScan(w, row + 1)

tiktokDetect(w) == tiktokScan(w, 1)

\* column D names the livestream (monthly variant)
ShopeeMonthlyHeader(w, row) ==
    LET valueD == LowerText(getCell(w, row, 4))
    IN  includes(valueD, "nama livestream") \/ includes(valueD, "livestream")

\* column C names the placed-order sales (daily / CSV variant)
ShopeeDailyHeader(w, row) ==
    LET valueC == LowerText(getCell(w, row, 3))
    IN  /\ includes(valueC, "penjualan")
        /\ includes(valueC, "pesanan dibuat") \/ includes(valueC, "placed order")

\* a scan that never looks for a secondary header row
RECURSIVE shopeeScanNoSecondary(_, _)
shopeeScanNoSecondary(w, row) ==
    IF row > ShopeeScanRows THEN NullRow
    ELSE IF ~HasPeriodeMarker(LowerText(getCell(w, row, 1)))
         THEN shopeeScanNoSecondary(w, row + 1)
    ELSE IF ShopeeMonthlyHeader(w, row) \/ ShopeeDailyHeader(w, row) THEN row + 1
    ELSE shopeeScanNoSecondary(w, row + 1)

shopeeDetectNoSecondary(w) == shopeeScanNoSecondary(w, 1)

RECURSIVE shopeeScan(_, _)
shopeeScan(w, row) ==
    IF row > ShopeeScanRows THEN NullRow
    ELSE IF ~HasPeriodeMarker(LowerText(getCell(w, row, 1))) THEN shopeeScan(w, row + 1)
    ELSE IF ShopeeMonthlyHeader(w, row) THEN row + 1
    ELSE IF ShopeeDailyHeader(w, row)
         THEN LET nextRow == row + 1
              IN  IF HasPeriodeMarker(LowerText(getCell(w, nextRow, 1)))
                  THEN nextRow + 1
                  ELSE row + 1
    ELSE shopeeScan(w, row + 1)

shopeeDetect(w) == shopeeScan(w, 1)

\* the earlier shopeeFormat object (same id, monthly variant only)
RECURSIVE shopeeMonthlyScan(_, _)
shopeeMonthlyScan(w, row) ==
    IF row > ShopeeScanRows THEN NullRow
    ELSE IF /\ HasPeriodeMarker(LowerText(getCell(w, row, 1)))
            /\ ShopeeMonthlyHeader(w, row)
         THEN row + 1
    ELSE shopeeMonthlyScan(w, row + 1)

shopeeMonthlyDetect(w) == shopeeMonthlyScan(w, 1)

\* the definition objects that may be handed to registerExcelFormat
FormatDefs == {"tiktokFormat", "shopeeFormat", "shopeeMonthlyFormat"}

\* formatDef.id
DefId(d) ==
    CASE d = "tiktokFormat" -> "TIKTOK_LIVESTREAM"
      [] d = "shopeeFormat" -> "SHOPEE_MONTHLY"
      [] d = "shopeeMonthlyFormat" -> "SHOPEE_MONTHLY"

\* formatDef.detect(worksheet)
Detect(d, w) ==
    CASE d = "tiktokFormat" -> tiktokDetect(w)
      [] d = "shopeeFormat" -> shopeeDetect(w)
      [] d = "shopeeMonthlyFormat" -> shopeeMonthlyDetect(w)

-----------------------------------------------------------------------------
(* The registry *)

\* EXCEL_FORMATS_REGISTRY.some((f) => f.id === formatDef.id)
IsRegistered(reg, d) == \E i \in 1..Len(reg) : DefId(reg[i]) = DefId(d)

\* a register that pushes without looking for the id
RegistryAfterNoCheck(reg, d) == Append(reg, d)

\* the registry after registerExcelFormat(formatDef)
RegistryAfter(reg, d) == IF IsRegistered(reg, d) THEN reg ELSE Append(reg, d)

\* the number of warnings after registerExcelFormat(formatDef)
WarningsAfter(reg, n, d) == IF IsRegistered(reg, d) THEN n + 1 ELSE n

registerExcelFormat(d) ==
    /\ registry' = RegistryAfter(registry, d)
    /\ warnings' = WarningsAfter(registry, warnings, d)

\* getFormatDefinition: the first registered definition with that id, "" if none
RECURSIVE findDefinition(_, _, _)
findDefinition(reg, i, formatId) ==
    IF i > Len(reg) THEN ""
    ELSE IF DefId(reg[i]) = formatId THEN reg[i]
    ELSE findDefinition(reg, i + 1, formatId)

getFormatDefinition(reg, formatId) == findDefinition(reg, 1, formatId)

RECURSIVE detectFormatFrom(_, _, _)
detectFormatFrom(reg, i, w) ==
    IF i > Len(reg)
    THEN [formatId |-> "UNSUPPORTED", startRow |-> DefaultStartRow]
    ELSE LET startRow == Detect(reg[i], w)
         IN  IF startRow # NullRow
             THEN [formatId |-> DefId(reg[i]), startRow |-> startRow]
             ELSE detectFormatFrom(reg, i + 1, w)

\* a detection that lets a later registered match override an earlier one
RECURSIVE detectFormatLastFrom(_, _, _)
detectFormatLastFrom(reg, i, w) ==
    IF i < 1
    THEN [formatId |-> "UNSUPPORTED", startRow |-> DefaultStartRow]
    ELSE LET startRow == Detect(reg[i], w)
         IN  IF startRow # NullRow
             THEN [formatId |-> DefId(reg[i]), startRow |-> startRow]
             ELSE detectFormatLastFrom(reg, i - 1, w)

detectFormatLastMatch(reg, w) == detectFormatLastFrom(reg, Len(reg), w)

detectFormat(reg, w) == detectFormatFrom(reg, 1, w)

detectExcelFormat(reg, w) == detectFormat(reg, w).formatId

\* format = "" stands for an omitted argument
detectDataStartRow(reg, w, format) ==
    IF format # ""
    THEN LET formatDef == getFormatDefinition(reg, format)
             startRow == IF formatDef # "" THEN Detect(formatDef, w) ELSE NullRow
         IN  IF startRow # NullRow THEN startRow ELSE DefaultStartRow
    ELSE detectFormat(reg, w).startRow

-----------------------------------------------------------------------------
(* Shape detection *)

\* (!cell.value || cell.value === "")
IsEmptyAnchor(v) == ~Truthy(v) \/ (v.t = "str" /\ v.s = "")

\* the while (true) loop: the number of rows from `row` on before the first
\* row whose cells A and B are both empty
RECURSIVE countDataRows(_, _)
countDataRows(w, row) ==
    IF IsEmptyAnchor(getCell(w, row, 1)) /\ IsEmptyAnchor(getCell(w, row, 2))
    THEN 0
    ELSE 1 + countDataRows(w, row + 1)

\* a shape whose lastRow is one row short
detectDataLengthShort(reg, w, startRow, format) ==
    LET detectedFormat == IF format # "" THEN format ELSE detectExcelFormat(reg, w)
        dataStartRow == IF startRow # NullRow THEN startRow
                        ELSE detectDataStartRow(reg, w, detectedFormat)
        dataRows == countDataRows(w, dataStartRow)
    IN  [startRow |-> dataStartRow, lastRow |-> dataStartRow + dataRows - 2]

\* startRow = NullRow and format = "" stand for omitted arguments
detectDataLength(reg, w, startRow, format) ==
    LET detectedFormat == IF format # "" THEN format ELSE detectExcelFormat(reg, w)
        dataStartRow == IF startRow # NullRow THEN startRow
                        ELSE detectDataStartRow(reg, w, detectedFormat)
        dataRows == countDataRows(w, dataStartRow)
    IN  [startRow |-> dataStartRow, lastRow |-> dataStartRow + dataRows - 1]

-----------------------------------------------------------------------------
(* The value cleaners *)

Char(s, i) == SubSeq(s, i, i)

IsDigit(c) == c \in {"0", "1", "2", "3", "4", "5", "6", "7", "8", "9"}

DigitValue(c) == CHOOSE d \in 0..9 : Digit(d) = c

\* \s of a regular expression, on the characters the inputs use
IsSpace(c) == c = " "

\* str.replace(/[...]/g, ""): drop every character of the class
RECURSIVE RemoveChars(_, _)
RemoveChars(s, class) ==
    IF Len(s) = 0 THEN ""
    ELSE (IF Char(s, 1) \in class THEN "" ELSE Char(s, 1))
            \o RemoveChars(SubSeq(s, 2, Len(s)), class)

\* str.replace(/,/g, ".")
RECURSIVE ReplaceChar(_, _, _)
ReplaceChar(s, from, to) ==
    IF Len(s) = 0 THEN ""
    ELSE (IF Char(s, 1) = from THEN to ELSE Char(s, 1))
            \o ReplaceChar(SubSeq(s, 2, Len(s)), from, to)

RECURSIVE TrimLeft(_)
TrimLeft(s) ==
    IF Len(s) > 0 /\ IsSpace(Char(s, 1)) THEN TrimLeft(SubSeq(s, 2, Len(s))) ELSE s

RECURSIVE TrimRight(_)
TrimRight(s) ==
    IF Len(s) > 0 /\ IsSpace(Char(s, Len(s)))
    THEN TrimRight(SubSeq(s, 1, Len(s) - 1))
    ELSE s

\* String.prototype.trim
trim(s) == TrimRight(TrimLeft(s))

\* the decimal m / 10^e in lowest terms
RECURSIVE Normalize(_, _)
Normalize(m, e) ==
    IF e > 0 /\ m % 10 = 0 THEN Normalize(m \div 10, e - 1) ELSE Dec(m, e)

\* the index after the run of digits that starts at i
RECURSIVE DigitsEnd(_, _)
DigitsEnd(s, i) ==
    IF i <= Len(s) /\ IsDigit(Char(s, i)) THEN DigitsEnd(s, i + 1) ELSE i

\* the number written by the digits s[i..j-1], as parseInt(text, 10) and the
\* digit runs of parseFloat read it
RECURSIVE DigitsNumber(_, _, _)
DigitsNumber(s, i, j) ==
    IF j <= i THEN 0
    ELSE 10 * DigitsNumber(s, i, j - 1) + DigitValue(Char(s, j - 1))

\* parseFloat: leading spaces, a sign, digits, a fraction; the longest prefix
\* that reads as a decimal literal. [nan |-> TRUE] when there is none.
\* (Exponents and "Infinity" are not produced by the inputs of the model.)
parseFloat(text) ==
    LET s == TrimLeft(text)
        signed == Len(s) > 0 /\ Char(s, 1) \in {"+", "-"}
        i0 == IF signed THEN 2 ELSE 1
        i1 == DigitsEnd(s, i0)
        hasDot == i1 <= Len(s) /\ Char(s, i1) = "."
        i2 == IF hasDot THEN DigitsEnd(s, i1 + 1) ELSE i1
        fracLen == IF hasDot THEN i2 - (i1 + 1) ELSE 0
        digits == (i1 - i0) + fracLen
        whole == DigitsNumber(s, i0, i1)
        frac == IF hasDot THEN DigitsNumber(s, i1 + 1, i2) ELSE 0
        magnitude == whole * Pow10(fracLen) + frac
        m == IF signed /\ Char(s, 1) = "-" THEN 0 - magnitude ELSE magnitude
    IN  IF digits = 0 THEN [nan |-> TRUE, value |-> Num(0)]
        ELSE [nan |-> FALSE, value |-> Normalize(m, fracLen)]

\* the parsed number handed on without the isNaN check
NumberOrNaN(parsed) ==
    IF parsed.nan THEN [t |-> "nan", s |-> "", m |-> 0, e |-> 0] ELSE parsed.value

\* isNaN(number) ? 0 : number
NumberOrZero(parsed) == IF parsed.nan THEN Num(0) ELSE parsed.value

\* the characters of /[Rp$...]/ that the inputs use (the class also lists
\* further currency signs)
CurrencyGlyphs == {"R", "p", "$"}

cleanCurrencyValue(value) ==
    IF value.t = "num" THEN value
    ELSE IF ~Truthy(value) THEN Num(0)
    ELSE LET str == ValueToString(value)
             cleaned == trim(RemoveChars(RemoveChars(RemoveChars(str, CurrencyGlyphs),
                                                     {",", ".", "'"}), {" "}))
         IN  NumberOrZero(parseFloat(cleaned))

\* number / 100
DivideBy100(v) == Normalize(v.m, v.e + 2)

\* a cleaner that divides by 100 with or without a percent sign
cleanPercentageValueAlwaysDivides(value) ==
    IF value.t = "num" THEN value
    ELSE IF ~Truthy(value) THEN Num(0)
    ELSE NumberOrZero(
             [nan |-> parseFloat(trim(RemoveChars(ReplaceChar(RemoveChars(
                                   ValueToString(value), {"%"}), ",", "."), {" "}))).nan,
              value |-> DivideBy100(parseFloat(trim(RemoveChars(ReplaceChar(
                            RemoveChars(ValueToString(value), {"%"}), ",", "."),
                            {" "}))).value)])

cleanPercentageValue(value) ==
    IF value.t = "num" THEN value
    ELSE IF ~Truthy(value) THEN Num(0)
    ELSE LET str == ValueToString(value)
             cleaned == trim(RemoveChars(ReplaceChar(RemoveChars(str, {"%"}), ",", "."),
                                         {" "}))
             parsed == parseFloat(cleaned)
         IN  IF parsed.nan THEN Num(0)
             ELSE IF includes(str, "%") THEN DivideBy100(parsed.value)
             ELSE parsed.value

cleanNumericValue(value) ==
    IF value.t = "num" THEN value
    ELSE IF ~Truthy(value) THEN Num(0)
    ELSE LET str == ValueToString(value)
             cleaned == trim(RemoveChars(str, {",", " "}))
         IN  NumberOrZero(parseFloat(cleaned))

cleanTextValue(value) ==
    IF ~Truthy(value) THEN Str("") ELSE Str(trim(ValueToString(value)))

\* /^(\d+):(\d+):(\d+)$/: the three digit runs, or matched = FALSE
MatchTimePattern(str) ==
    LET a == DigitsEnd(str, 1)
        b == DigitsEnd(str, a + 1)
        c == DigitsEnd(str, b + 1)
        ok == /\ a > 1 /\ a <= Len(str) /\ Char(str, a) = ":"
              /\ b > a + 1 /\ b <= Len(str) /\ Char(str, b) = ":"
              /\ c > b + 1 /\ c = Len(str) + 1
    IN  IF ok
        THEN [matched |-> TRUE,
              hours |-> DigitsNumber(str, 1, a),
              minutes |-> DigitsNumber(str, a + 1, b),
              seconds |-> DigitsNumber(str, b + 1, c)]
        ELSE [matched |-> FALSE, hours |-> 0, minutes |-> 0, seconds |-> 0]

\* the durations in seconds, below five hours, for which decimalHours * 100
\* lies exactly halfway between two integers while its IEEE 754 double
\* (hours + minutes / 60 + seconds / 3600, then * 100, each operation
\* rounded to a double) lies just below the half: Math.round goes down
HalvesComputedBelow ==
    {126, 522, 594, 702, 1026, 2070, 3618, 3654, 3690, 4158, 4194, 4338, 4374,
     4518, 4554, 4590, 5058, 5094, 5238, 5958, 5994, 6030, 6138, 6858, 6894,
     6930, 7038, 7326, 7398, 7686, 7758, 7830, 7866, 7902, 8226, 8298, 8370,
     8586, 8658, 8730, 9126, 9198, 10026, 10926, 11466, 11826, 12726, 13626,
     14454, 14634, 14778, 14814, 15354, 15534, 15678, 15714, 16254, 16434,
     16578, 16614, 16722, 17154, 17334, 17478, 17514, 17622}

\* decimal hours cut after two decimals instead of rounded
RoundedHoursTruncated(hours, minutes, seconds) ==
    Normalize(((3600 * hours + 60 * minutes + seconds) * 200) \div 7200, 2)

\* Math.round(decimalHours * 100) / 100 for
\* decimalHours = hours + minutes / 60 + seconds / 3600 (minutes and seconds
\* below 60, durations below five hours): Math.round takes a half upwards,
\* and the double of a half may lie below it
RoundedHours(hours, minutes, seconds) ==
    IF (3600 * hours + 60 * minutes + seconds) \in HalvesComputedBelow
    THEN Normalize(((3600 * hours + 60 * minutes + seconds) * 200 + 3600) \div 7200 - 1,
                   2)
    ELSE Normalize(((3600 * hours + 60 * minutes + seconds) * 200 + 3600) \div 7200, 2)

cleanDurationValue(value) ==
    IF value.t = "num" THEN value
    ELSE IF ~Truthy(value) THEN Num(0)
    ELSE LET str == trim(ValueToString(value))
             match == MatchTimePattern(str)
         IN  IF str = "" THEN Num(0)
             ELSE IF match.matched
                  THEN RoundedHours(match.hours, match.minutes, match.seconds)
             ELSE NumberOrZero(parseFloat(trim(RemoveChars(str, {",", " "}))))

\* the switch of cleanAndCopyData
applyCleaningRule(rule, rawValue) ==
    CASE rule = "currency" -> cleanCurrencyValue(rawValue)
      [] rule = "percentage" -> cleanPercentageValue(rawValue)
      [] rule = "numeric" -> cleanNumericValue(rawValue)
      [] rule = "duration" -> cleanDurationValue(rawValue)
      [] OTHER -> cleanTextValue(rawValue)

-----------------------------------------------------------------------------
(* Output worksheets *)

\* cell.value = { formula }
Formula(x) == [t |-> "formula", s |-> x, m |-> 0, e |-> 0]

\* a cell of an output sheet: its value, its numFmt, and how often its value
\* has been assigned
BlankCell == [value |-> Null, numFmt |-> "", writes |-> 0]

\* a worksheet nothing has been written to
EmptySheet == <<>>

\* sheet.getCell(row, col) of an output sheet
cellAt(sheet, row, col) ==
    IF <<row, col>> \in DOMAIN sheet THEN sheet[<<row, col>>] ELSE BlankCell

\* one assignment to a cell: kind "value" (cell.value = ...) or "numFmt"
SetValue(row, col, v) == [row |-> row, col |-> col, kind |-> "value", value |-> v]
SetNumFmt(row, col, fmt) ==
    [row |-> row, col |-> col, kind |-> "numFmt", value |-> Str(fmt)]

\* the sheet after the assignments of the sequence ops, made in order
ApplyWrites(sheet, ops) ==
    LET touched == {<<ops[i].row, ops[i].col>> : i \in 1..Len(ops)}
        At(k, kind) ==
            {i \in 1..Len(ops) : ops[i].row = k[1] /\ ops[i].col = k[2]
                                    /\ ops[i].kind = kind}
        Last(I) == CHOOSE i \in I : \A j \in I : j <= i
    IN  [k \in DOMAIN sheet \cup touched |->
            LET old == cellAt(sheet, k[1], k[2])
                values == At(k, "value")
                formats == At(k, "numFmt")
            IN  [value |-> IF values = {} THEN old.value ELSE ops[Last(values)].value,
                 numFmt |-> IF formats = {} THEN old.numFmt
                            ELSE ops[Last(formats)].value.s,
                 writes |-> old.writes + Cardinality(values)]]

\* the column number of a column in letters ("A" = 1, "AA" = 27)
LetterIndex(c) ==
    CHOOSE n \in 1..26 :
        SubSeq("ABCDEFGHIJKLMNOPQRSTUVWXYZ", n, n) = c

RECURSIVE ColumnNumber(_)
ColumnNumber(letters) ==
    IF Len(letters) = 0 THEN 0
    ELSE 26 * ColumnNumber(SubSeq(letters, 1, Len(letters) - 1))
            + LetterIndex(Char(letters, Len(letters)))

-----------------------------------------------------------------------------
(* The format definitions: headers and cleaning rules *)

tiktokHeaders ==
    <<"Livestream", "Start time", "Duration", "Gross revenue", "Direct GMV",
      "Items sold", "Customers", "Avg, price", "Orders paid for", "GMV/1K shows",
      "GMV/1K views", "Views", "Viewers", "Peak viewers", "New followers",
      "Avg, view duration", "Likes", "Comments", "Shares", "Product impressions",
      "Product clicks", "CTR", "CTOR">>

\* tiktokColumnCleaningRules[colIndex], colIndex 0-based; "" is undefined
tiktokColumnCleaningRules(colIndex) ==
    CASE colIndex \in {3, 4, 7, 9, 10} -> "currency"
      [] colIndex \in {2, 5, 6, 8, 11, 12, 13, 14, 15, 16, 17, 18, 19, 20} -> "numeric"
      [] colIndex \in {21, 22} -> "percentage"
      [] OTHER -> ""

\* the canonical Shopee layout (the definition registered at module load)
shopeeHeaders ==
    <<"Periode Data", "User Id", "Penjualan(Pesanan Dibuat)",
      "Penjualan(Pesanan Siap Dikirim)", "Pesanan(Pesanan Dibuat)",
      "Pesanan(Pesanan Siap Dikirim)", "Produk Terjual(Pesanan Dibuat)",
      "Produk Terjual(Pesanan Siap Dikirim)", "Penonton", "Penonton Aktif",
      "Rata-rata durasi ditonton", "Persentase Klik",
      "Pesanan per Klik(Pesanan Dibuat)", "Pesanan per Klik(Pesanan Siap Dikirim)",
      "Suka", "Share", "Komentar">>

shopeeColumnCleaningRules(colIndex) ==
    CASE colIndex \in {2, 3} -> "currency"
      [] colIndex \in {4, 5, 6, 7, 8, 9, 14, 15, 16} -> "numeric"
      [] colIndex \in {11, 12, 13} -> "percentage"
      [] colIndex \in {0, 1, 10} -> "text"
      [] OTHER -> ""

\* the monthly layout of the earlier Shopee definition
shopeeMonthlyHeaders ==
    <<"Periode Data", "User Id", "No.", "Nama Livestream", "Start Time", "Durasi",
      "Penonton Aktif", "Komentar", "Tambah ke Keranjang",
      "Durasi Rata-Rata Menonton", "Penonton", "Pesanan(Pesanan Dibuat)",
      "Pesanan(Pesanan Siap Dikirim)", "Produk Terjual(Pesanan Dibuat)",
      "Produk Terjual(Pesanan Siap Dikirim)", "Penjualan(Pesanan Dibuat)",
      "Penjualan(Pesanan Siap Dikirim)">>

shopeeMonthlyColumnCleaningRules(colIndex) ==
    CASE colIndex \in {15, 16} -> "currency"
      [] colIndex \in {2, 6, 7, 8, 10, 11, 12, 13, 14} -> "numeric"
      [] colIndex \in {5, 9} -> "duration"
      [] colIndex \in {0, 1, 3, 4} -> "text"
      [] OTHER -> ""

\* formatDef.headers
Headers(d) ==
    CASE d = "tiktokFormat" -> tiktokHeaders
      [] d = "shopeeFormat" -> shopeeHeaders
      [] d = "shopeeMonthlyFormat" -> shopeeMonthlyHeaders

\* formatDef.columnCleaningRules[colIndex]
CleaningRule(d, colIndex) ==
    CASE d = "tiktokFormat" -> tiktokColumnCleaningRules(colIndex)
      [] d = "shopeeFormat" -> shopeeColumnCleaningRules(colIndex)
      [] d = "shopeeMonthlyFormat" -> shopeeMonthlyColumnCleaningRules(colIndex)

-----------------------------------------------------------------------------
(* cleanAndCopyData *)

\* the definition cleanAndCopyData works with: the one of the format, or the
\* TikTok one when the format is not registered
DefinitionOrDefault(reg, format) ==
    IF getFormatDefinition(reg, format) # ""
    THEN getFormatDefinition(reg, format)
    ELSE getFormatDefinition(reg, "TIKTOK_LIVESTREAM")

\* headers.forEach: row 1 of the clean sheet
HeaderWrites(headers) ==
    [i \in 1..Len(headers) |-> SetValue(1, i, Str(headers[i]))]

\* a copy loop that never advances cleanRow
CleanWritesOneRow(d, input, startRow, lastRow) ==
    LET width == Len(Headers(d))
        count == IF lastRow >= startRow THEN lastRow - startRow + 1 ELSE 0
    IN  [n \in 1..(count * width) |->
            LET rawRow == startRow + ((n - 1) \div width)
                colIndex == (n - 1) % width
                rawValue == getCell(input, rawRow, colIndex + 1)
            IN  SetValue(2, colIndex + 1,
                         applyCleaningRule(CleaningRule(d, colIndex), rawValue))]

\* the for loop over rawRow with its headers.forEach, in the order of the code
CleanWrites(d, input, startRow, lastRow) ==
    LET width == Len(Headers(d))
        count == IF lastRow >= startRow THEN lastRow - startRow + 1 ELSE 0
    IN  [n \in 1..(count * width) |->
            LET rawRow == startRow + ((n - 1) \div width)
                cleanRow == 2 + ((n - 1) \div width)
                colIndex == (n - 1) % width
                rawValue == getCell(input, rawRow, colIndex + 1)
            IN  SetValue(cleanRow, colIndex + 1,
                         applyCleaningRule(CleaningRule(d, colIndex), rawValue))]

\* the clean sheet after cleanAndCopyData; the sheet is left as it is when
\* not even the TikTok definition is registered (the function throws)
cleanAndCopyData(reg, input, cleanDataSheet, startRow, lastRow, format) ==
    LET d == DefinitionOrDefault(reg, format)
    IN  IF d = "" THEN cleanDataSheet
        ELSE ApplyWrites(cleanDataSheet,
                         HeaderWrites(Headers(d))
                             \o CleanWrites(d, input, startRow, lastRow))

-----------------------------------------------------------------------------
(* JavaScript dates.  An instant is a number of minutes since the epoch;   *)
(* a time zone is its UTC offset in hours.                                 *)

\* the offset of Asia/Jakarta, in hours
JakartaOffset == 7

\* offsets the server's own time zone may have: behind UTC, Jakarta's, ahead
\* of Jakarta's
SystemOffsets == {0 - 5, JakartaOffset, 9}

\* str.split(sep), sep one character
RECURSIVE SplitFrom(_, _, _, _)
SplitFrom(str, sep, i, start) ==
    IF i > Len(str) THEN <<SubSeq(str, start, Len(str))>>
    ELSE IF Char(str, i) = sep
         THEN <<SubSeq(str, start, i - 1)>> \o SplitFrom(str, sep, i + 1, i + 1)
         ELSE SplitFrom(str, sep, i + 1, start)

split(str, sep) == SplitFrom(str, sep, 1, 1)

\* parts[i], "" standing for undefined (both are falsy)
PartAt(parts, i) == IF i <= Len(parts) THEN parts[i] ELSE ""

\* parseInt(text): an optional sign and the leading digits
parseInt(text) ==
    LET s == TrimLeft(text)
        signed == Len(s) > 0 /\ Char(s, 1) \in {"+", "-"}
        i0 == IF signed THEN 2 ELSE 1
        i1 == DigitsEnd(s, i0)
        n == DigitsNumber(s, i0, i1)
    IN  IF i1 = i0 THEN [nan |-> TRUE, n |-> 0]
        ELSE [nan |-> FALSE, n |-> IF signed /\ Char(s, 1) = "-" THEN 0 - n ELSE n]

\* Number(text) of a text of digits; the empty text is 0
ToNumber(text) ==
    LET s == trim(text)
    IN  IF s = "" THEN [nan |-> FALSE, n |-> 0]
        ELSE IF DigitsEnd(s, 1) = Len(s) + 1
             THEN [nan |-> FALSE, n |-> DigitsNumber(s, 1, Len(s) + 1)]
             ELSE [nan |-> TRUE, n |-> 0]

\* days since 1970-01-01 of the civil date y-m-d (m in 1..12)
DaysFromCivil(y, m, d) ==
    LET yy == IF m <= 2 THEN y - 1 ELSE y
        era == yy \div 400
        yoe == yy - era * 400
        mp == IF m > 2 THEN m - 3 ELSE m + 9
        doy == (153 * mp + 2) \div 5 + d - 1
        doe == yoe * 365 + yoe \div 4 - yoe \div 100 + doy
    IN  era * 146097 + doe - 719468

\* the civil date of a day number
CivilFromDays(days) ==
    LET z == days + 719468
        era == z \div 146097
        doe == z - era * 146097
        yoe == (doe - doe \div 1460 + doe \div 36524 - doe \div 146096) \div 365
        doy == doe - (365 * yoe + yoe \div 4 - yoe \div 100)
        mp == (5 * doy + 2) \div 153
        d == doy - (153 * mp + 2) \div 5 + 1
        m == IF mp < 10 THEN mp + 3 ELSE mp - 9
        y == yoe + era * 400 + (IF m <= 2 THEN 1 ELSE 0)
    IN  [year |-> y, month |-> m, day |-> d]

\* new Date(year, monthIndex, day): midnight of that day in the zone of the
\* server; months and days outside their range carry over, years 0..99 are
\* 1900..1999
LocalDate(year, monthIndex, day, zone) ==
    LET fullYear == IF year >= 0 /\ year <= 99 THEN 1900 + year ELSE year
        y == fullYear + (monthIndex \div 12)
        m == (monthIndex % 12) + 1
        days == DaysFromCivil(y, m, 1) + (day - 1)
    IN  days * 1440 - zone * 60

\* the calendar date and the time of day an instant has in a zone
CivilInZone(instant, zone) == CivilFromDays((instant + zone * 60) \div 1440)

Pad2(n) == IF n < 10 THEN "0" \o NatToString(n) ELSE NatToString(n)

Pad4(n) ==
    IF n < 10 THEN "000" \o NatToString(n)
    ELSE IF n < 100 THEN "00" \o NatToString(n)
    ELSE IF n < 1000 THEN "0" \o NatToString(n)
    ELSE NatToString(n)

\* tzDate.toISOString().split("T")[0]: the date of the instant in the zone of
\* the TZDate (years 0..9999)
IsoDateInZone(instant, zone) ==
    LET civil == CivilInZone(instant, zone)
    IN  Pad4(civil.year) \o "-" \o Pad2(civil.month) \o "-" \o Pad2(civil.day)

\* getMonth() in the zone
MonthInZone(instant, zone) == CivilInZone(instant, zone).month - 1

IsDigits(str, n) == Len(str) = n /\ DigitsEnd(str, 1) = n + 1

\* new Date(text) for the two notations the pipeline meets: "YYYY-MM-DD" is
\* midnight UTC, "YYYY-MM-DD HH:MM" is a time of the server's zone; any other
\* text of the model's inputs is an Invalid Date
ParseDate(text, zone) ==
    LET halves == split(text, " ")
        ymd == split(halves[1], "-")
        hm == split(PartAt(halves, 2), ":")
        dateOk == /\ Len(ymd) = 3
                  /\ IsDigits(ymd[1], 4) /\ IsDigits(ymd[2], 2) /\ IsDigits(ymd[3], 2)
                  /\ parseInt(ymd[2]).n \in 1..12
                  /\ parseInt(ymd[3]).n \in 1..31
        timeOk == /\ Len(halves) = 2 /\ Len(hm) = 2
                  /\ IsDigits(hm[1], 2) /\ IsDigits(hm[2], 2)
                  /\ parseInt(hm[1]).n \in 0..23
                  /\ parseInt(hm[2]).n \in 0..59
        days == DaysFromCivil(parseInt(ymd[1]).n, parseInt(ymd[2]).n, parseInt(ymd[3]).n)
    IN  IF dateOk /\ Len(halves) = 1
        THEN [valid |-> TRUE, instant |-> days * 1440]
        ELSE IF dateOk /\ timeOk
        THEN [valid |-> TRUE,
              instant |-> days * 1440 + parseInt(hm[1]).n * 60 + parseInt(hm[2]).n
                            - zone * 60]
        ELSE [valid |-> FALSE, instant |-> 0]

-----------------------------------------------------------------------------
(* The formula generators of the format definitions.  Each returns its     *)
(* entries in the order Object.entries yields them.                        *)

\* const seg = (c) => `$${c}$${startRow}:$${c}$${lastRow}`
seg(c, startRow, lastRow) ==
    "$" \o c \o "$" \o NatToString(startRow) \o ":$" \o c \o "$" \o NatToString(lastRow)

tiktokBuildDataRanges(startRow, lastRow) ==
    [startDateR |-> "'clean data'!" \o seg("X", startRow, lastRow),
     startTimeR |-> "'clean data'!" \o seg("Y", startRow, lastRow),
     endTimeR |-> "'clean data'!" \o seg("Z", startRow, lastRow),
     weekInYearR |-> "'clean data'!" \o seg("AA", startRow, lastRow),
     montIndex |-> "'clean data'!" \o seg("AB", startRow, lastRow),
     grossR |-> "'clean data'!" \o seg("D", startRow, lastRow),
     directR |-> "'clean data'!" \o seg("E", startRow, lastRow),
     itemsR |-> "'clean data'!" \o seg("F", startRow, lastRow),
     avgViewR |-> "'clean data'!" \o seg("P", startRow, lastRow),
     likesR |-> "'clean data'!" \o seg("Q", startRow, lastRow),
     commentsR |-> "'clean data'!" \o seg("R", startRow, lastRow),
     sharesR |-> "'clean data'!" \o seg("S", startRow, lastRow),
     ctrR |-> "'clean data'!" \o seg("V", startRow, lastRow),
     ctorR |-> "'clean data'!" \o seg("W", startRow, lastRow),
     gmv1kShowsR |-> "'clean data'!" \o seg("J", startRow, lastRow)]

tiktokGenerateRawDataFormulas(row) ==
    <<[col |-> "X",
       formula |-> "TEXT(B" \o NatToString(row) \o ",\"yyyy-mm-dd\")"],
      [col |-> "Y",
       formula |-> "TEXT(B" \o NatToString(row) \o ",\"hh:mm\")"],
      [col |-> "Z",
       formula |-> "TEXT(B" \o NatToString(row) \o "+(C" \o NatToString(row)
                      \o "/86400),\"hh:mm\")"],
      [col |-> "AA",
       formula |-> "WEEKNUM(X" \o NatToString(row) \o ",2)"],
      [col |-> "AB",
       formula |-> "MONTH(X" \o NatToString(row) \o ")"],
      [col |-> "AC",
       formula |-> "D" \o NatToString(row) \o "/(C" \o NatToString(row)
                      \o "/3600)"]>>

tiktokGenerateMetricsFormulas(row, startRow, lastRow) ==
    LET dataRanges == tiktokBuildDataRanges(startRow, lastRow)
    IN  <<[col |-> "A",
           formula |-> "TEXT(B" \o NatToString(row) \o ",\"dddd\")"],
          [col |-> "B",
           formula |-> "IFERROR(SORT(UNIQUE(FILTER(" \o dataRanges.startDateR
                          \o "," \o dataRanges.startDateR \o "<>\"\"))),\"\")"],
          [col |-> "C",
           formula |-> "XLOOKUP(B" \o NatToString(row) \o ","
                          \o dataRanges.startDateR \o ","
                          \o dataRanges.weekInYearR \o ")"],
          [col |-> "D",
           formula |-> "COUNTIF(" \o dataRanges.startDateR \o ",B"
                          \o NatToString(row) \o ")"],
          [col |-> "E",
           formula |-> "ROUND(AVERAGEIFS(" \o dataRanges.grossR \o ","
                          \o dataRanges.startDateR \o ",B" \o NatToString(row)
                          \o "),0)"],
          [col |-> "F",
           formula |-> "SUMIFS(" \o dataRanges.grossR \o ","
                          \o dataRanges.startDateR \o ",B" \o NatToString(row)
                          \o ")"],
          [col |-> "G",
           formula |-> "MEDIAN(FILTER(" \o dataRanges.ctrR \o ","
                          \o dataRanges.startDateR \o "=B" \o NatToString(row)
                          \o "))"],
          [col |-> "H",
           formula |-> "ROUND(AVERAGEIFS(" \o dataRanges.ctrR \o ","
                          \o dataRanges.startDateR \o ",B" \o NatToString(row)
                          \o "),4)"],
          [col |-> "I",
           formula |-> "MEDIAN(FILTER(" \o dataRanges.ctorR \o ","
                          \o dataRanges.startDateR \o "=B" \o NatToString(row)
                          \o "))"],
          [col |-> "J",
           formula |-> "ROUND(AVERAGEIFS(" \o dataRanges.ctorR \o ","
                          \o dataRanges.startDateR \o ",B" \o NatToString(row)
                          \o "),4)"],
          [col |-> "K",
           formula |-> "ROUND(AVERAGEIFS(" \o dataRanges.avgViewR \o ","
                          \o dataRanges.startDateR \o ",B" \o NatToString(row)
                          \o "),0)"],
          [col |-> "L",
           formula |-> "SUMIFS(" \o dataRanges.sharesR \o ","
                          \o dataRanges.startDateR \o ",B" \o NatToString(row)
                          \o ")"],
          [col |-> "M",
           formula |-> "SUMIFS(" \o dataRanges.commentsR \o ","
                          \o dataRanges.startDateR \o ",B" \o NatToString(row)
                          \o ")"],
          [col |-> "N",
           formula |-> "SUMIFS(" \o dataRanges.likesR \o ","
                          \o dataRanges.startDateR \o ",B" \o NatToString(row)
                          \o ")"],
          [col |-> "O",
           formula |-> "SUMIFS('clean data'!$M$" \o NatToString(startRow)
                          \o ":$M$" \o NatToString(lastRow) \o ","
                          \o dataRanges.startDateR \o ",B" \o NatToString(row)
                          \o ")"],
          [col |-> "P",
           formula |-> "MEDIAN(FILTER(" \o dataRanges.gmv1kShowsR \o ","
                          \o dataRanges.startDateR \o "=B" \o NatToString(row)
                          \o "))"]>>

tiktokGenerateSummaryFormulas(startRow, lastRow) ==
    LET dataRanges == tiktokBuildDataRanges(startRow, lastRow)
    IN  <<[metric |-> "Avg GMV/Sesi",
           formula |-> "ROUND(AVERAGE(" \o dataRanges.directR \o "),0)"],
          [metric |-> "Avg GMV/Day",
           formula |-> "ROUND(AVERAGE(metrics!F:F),0)"],
          [metric |-> "Avg CTR",
           formula |-> "ROUND(AVERAGE(" \o dataRanges.ctrR \o "),4)"],
          [metric |-> "Avg CTOR",
           formula |-> "ROUND(AVERAGE(" \o dataRanges.ctorR \o "),4)"],
          [metric |-> "Avg Viewers",
           formula |-> "ROUND(AVERAGE('clean data'!$M$"
                          \o NatToString(startRow) \o ":$M$"
                          \o NatToString(lastRow) \o "),0)"],
          [metric |-> "Avg Like",
           formula |-> "ROUND(AVERAGE(" \o dataRanges.likesR \o "),0)"],
          [metric |-> "Avg Comment",
           formula |-> "ROUND(AVERAGE(" \o dataRanges.commentsR \o "),0)"],
          [metric |-> "Avg Share",
           formula |-> "ROUND(AVERAGE(" \o dataRanges.sharesR \o "),0)"]>>

tiktokGenerateTrendFormulas(row, startRow, lastRow) ==
    LET dataRanges == tiktokBuildDataRanges(startRow, lastRow)
    IN  <<[col |-> "C",
           formula |-> "ROUND(AVERAGEIFS(" \o dataRanges.ctrR \o ","
                          \o dataRanges.montIndex \o ",A" \o NatToString(row)
                          \o "),4)"],
          [col |-> "D",
           formula |-> "ROUND(AVERAGEIFS(" \o dataRanges.ctorR \o ","
                          \o dataRanges.montIndex \o ",A" \o NatToString(row)
                          \o "),4)"],
          [col |-> "E",
           formula |-> "ROUND(AVERAGEIFS(" \o dataRanges.avgViewR \o ","
                          \o dataRanges.montIndex \o ",A" \o NatToString(row)
                          \o "),0)"],
          [col |-> "F",
           formula |-> "ROUND(AVERAGEIFS(" \o dataRanges.likesR \o ","
                          \o dataRanges.montIndex \o ",A" \o NatToString(row)
                          \o "),0)"],
          [col |-> "G",
           formula |-> "ROUND(AVERAGEIFS(" \o dataRanges.commentsR \o ","
                          \o dataRanges.montIndex \o ",A" \o NatToString(row)
                          \o "),0)"],
          [col |-> "H",
           formula |-> "ROUND(AVERAGEIFS(" \o dataRanges.sharesR \o ","
                          \o dataRanges.montIndex \o ",A" \o NatToString(row)
                          \o "),0)"]>>

shopeeBuildDataRanges(startRow, lastRow) ==
    [startDateR |-> "'clean data'!" \o seg("R", startRow, lastRow),
     startTimeR |-> "'clean data'!" \o seg("S", startRow, lastRow),
     endTimeR |-> "'clean data'!" \o seg("T", startRow, lastRow),
     weekInYearR |-> "'clean data'!" \o seg("U", startRow, lastRow),
     montIndex |-> "'clean data'!" \o seg("V", startRow, lastRow),
     grossR |-> "'clean data'!" \o seg("C", startRow, lastRow),
     directR |-> "'clean data'!" \o seg("D", startRow, lastRow),
     itemsR |-> "'clean data'!" \o seg("G", startRow, lastRow),
     avgViewR |-> "'clean data'!" \o seg("K", startRow, lastRow),
     likesR |-> "'clean data'!" \o seg("O", startRow, lastRow),
     commentsR |-> "'clean data'!" \o seg("Q", startRow, lastRow),
     sharesR |-> "'clean data'!" \o seg("P", startRow, lastRow),
     ctrR |-> "'clean data'!" \o seg("L", startRow, lastRow),
     ctorR |-> "'clean data'!" \o seg("M", startRow, lastRow),
     gmv1kShowsR |-> "'clean data'!" \o seg("C", startRow, lastRow)]

\* the isDailyFormat branch
shopeeRawDataFormulasDaily(row) ==
    <<[col |-> "R",
       formula |-> "IFERROR(IF(ISNUMBER(A" \o NatToString(row) \o "),A"
                      \o NatToString(row) \o ",IF(ISERROR(DATEVALUE(A"
                      \o NatToString(row) \o ")),DATE(MID(A" \o NatToString(row)
                      \o ",7,4),MID(A" \o NatToString(row) \o ",4,2),LEFT(A"
                      \o NatToString(row) \o ",2)),DATEVALUE(A"
                      \o NatToString(row) \o "))),\"\")"],
      [col |-> "S",
       formula |-> "\"\""],
      [col |-> "T",
       formula |-> "\"\""],
      [col |-> "U",
       formula |-> "IFERROR(IF(R" \o NatToString(row) \o "<>\"\",WEEKNUM(R"
                      \o NatToString(row) \o ",2),\"\"),\"\")"],
      [col |-> "V",
       formula |-> "IFERROR(IF(R" \o NatToString(row) \o "<>\"\",MONTH(R"
                      \o NatToString(row) \o "),\"\"),\"\")"],
      [col |-> "W",
       formula |-> "0"]>>

\* the monthly branch
shopeeRawDataFormulasMonthly(row) ==
    <<[col |-> "R",
       formula |-> "IFERROR(IF(ISNUMBER(A" \o NatToString(row) \o "),INT(A"
                      \o NatToString(row) \o "),IF(ISERROR(DATEVALUE(A"
                      \o NatToString(row) \o ")),DATE(MID(A" \o NatToString(row)
                      \o ",7,4),MID(A" \o NatToString(row) \o ",4,2),LEFT(A"
                      \o NatToString(row) \o ",2)),INT(DATEVALUE(A"
                      \o NatToString(row) \o ")))),\"\")"],
      [col |-> "S",
       formula |-> "IFERROR(IF(ISNUMBER(A" \o NatToString(row) \o "),MOD(A"
                      \o NatToString(row) \o ",1),TIMEVALUE(A" \o NatToString(row)
                      \o ")),TIME(0,0,0))"],
      [col |-> "T",
       formula |-> "IFERROR(IF(AND(K" \o NatToString(row) \o "<>\"\",K"
                      \o NatToString(row) \o "<>0),S" \o NatToString(row)
                      \o "+(TIMEVALUE(\"00:\"&SUBSTITUTE(K" \o NatToString(row)
                      \o ",\":\",\"\"))*24),S" \o NatToString(row) \o "),S"
                      \o NatToString(row) \o ")"],
      [col |-> "U",
       formula |-> "IFERROR(IF(R" \o NatToString(row) \o "<>\"\",WEEKNUM(R"
                      \o NatToString(row) \o ",2),\"\"),\"\")"],
      [col |-> "V",
       formula |-> "IFERROR(IF(R" \o NatToString(row) \o "<>\"\",MONTH(R"
                      \o NatToString(row) \o "),\"\"),\"\")"],
      [col |-> "W",
       formula |-> "0"]>>

\* the formulas of the daily branch of processExcelFile
shopeeDailyFormulas(row) ==
    <<[col |-> "S",
       formula |-> "\"\""],
      [col |-> "T",
       formula |-> "\"\""],
      [col |-> "U",
       formula |-> "IFERROR(IF(R" \o NatToString(row) \o "<>\"\",WEEKNUM(R"
                      \o NatToString(row) \o ",2),\"\"),\"\")"],
      [col |-> "V",
       formula |-> "IFERROR(IF(R" \o NatToString(row) \o "<>\"\",MONTH(R"
                      \o NatToString(row) \o "),\"\"),\"\")"],
      [col |-> "W",
       formula |-> "0"]>>

\* the formulas of the monthly branch of processExcelFile
shopeeMonthlyFormulas(row, rawDataRow) ==
    <<[col |-> "U",
       formula |-> "IFERROR(IF(R" \o NatToString(row) \o "<>\"\",WEEKNUM(R"
                      \o NatToString(row) \o ",2),\"\"),\"\")"],
      [col |-> "V",
       formula |-> "IFERROR(IF(R" \o NatToString(row) \o "<>\"\",MONTH(R"
                      \o NatToString(row) \o "),\"\"),\"\")"],
      [col |-> "W",
       formula |-> "IFERROR(IF('raw data'!F" \o NatToString(rawDataRow)
                      \o ">0,IF(ISNUMBER('raw data'!F" \o NatToString(rawDataRow)
                      \o "),D" \o NatToString(row) \o "/('raw data'!F"
                      \o NatToString(rawDataRow) \o "/3600),D" \o NatToString(row)
                      \o "/('raw data'!F" \o NatToString(rawDataRow)
                      \o "*24)),0),0)"]>>

shopeeGenerateMetricsFormulas(row, startRow, lastRow) ==
    LET dataRanges == shopeeBuildDataRanges(startRow, lastRow)
    IN  <<[col |-> "A",
           formula |-> "TEXT(B" \o NatToString(row) \o ",\"dddd\")"],
          [col |-> "B",
           formula |-> "IFERROR(SORT(UNIQUE(FILTER(" \o dataRanges.startDateR
                          \o "," \o dataRanges.startDateR \o "<>\"\"))),\"\")"],
          [col |-> "C",
           formula |-> "XLOOKUP(B" \o NatToString(row) \o ","
                          \o dataRanges.startDateR \o ","
                          \o dataRanges.weekInYearR \o ")"],
          [col |-> "D",
           formula |-> "COUNTIF(" \o dataRanges.startDateR \o ",B"
                          \o NatToString(row) \o ")"],
          [col |-> "E",
           formula |-> "MAXIFS(" \o dataRanges.grossR \o ","
                          \o dataRanges.startDateR \o ",B" \o NatToString(row)
                          \o ")"],
          [col |-> "F",
           formula |-> "MINIFS(" \o dataRanges.grossR \o ","
                          \o dataRanges.startDateR \o ",B" \o NatToString(row)
                          \o ")"],
          [col |-> "G",
           formula |-> "ROUND(AVERAGEIFS(" \o dataRanges.grossR \o ","
                          \o dataRanges.startDateR \o ",B" \o NatToString(row)
                          \o "),0)"],
          [col |-> "H",
           formula |-> "SUMIFS(" \o dataRanges.grossR \o ","
                          \o dataRanges.startDateR \o ",B" \o NatToString(row)
                          \o ")"],
          [col |-> "I",
           formula |-> "\"\""],
          [col |-> "J",
           formula |-> "MAXIFS(" \o dataRanges.itemsR \o ","
                          \o dataRanges.startDateR \o ",B" \o NatToString(row)
                          \o ")"],
          [col |-> "K",
           formula |-> "MINIFS(" \o dataRanges.itemsR \o ","
                          \o dataRanges.startDateR \o ",B" \o NatToString(row)
                          \o ")"],
          [col |-> "L",
           formula |-> "ROUND(AVERAGEIFS(" \o dataRanges.itemsR \o ","
                          \o dataRanges.startDateR \o ",B" \o NatToString(row)
                          \o "),0)"],
          [col |-> "M",
           formula |-> "ROUND(AVERAGEIFS(" \o dataRanges.avgViewR \o ","
                          \o dataRanges.startDateR \o ",B" \o NatToString(row)
                          \o "),0)"],
          [col |-> "N",
           formula |-> "\"\""],
          [col |-> "O",
           formula |-> "MAXIFS(" \o dataRanges.ctrR \o ","
                          \o dataRanges.startDateR \o ",B" \o NatToString(row)
                          \o ")"],
          [col |-> "P",
           formula |-> "MINIFS(" \o dataRanges.ctrR \o ","
                          \o dataRanges.startDateR \o ",B" \o NatToString(row)
                          \o ")"],
          [col |-> "Q",
           formula |-> "ROUND(AVERAGEIFS(" \o dataRanges.ctrR \o ","
                          \o dataRanges.startDateR \o ",B" \o NatToString(row)
                          \o "),4)"],
          [col |-> "R",
           formula |-> "\"\""],
          [col |-> "S",
           formula |-> "MAXIFS(" \o dataRanges.ctorR \o ","
                          \o dataRanges.startDateR \o ",B" \o NatToString(row)
                          \o ")"],
          [col |-> "T",
           formula |-> "MINIFS(" \o dataRanges.ctorR \o ","
                          \o dataRanges.startDateR \o ",B" \o NatToString(row)
                          \o ")"],
          [col |-> "U",
           formula |-> "ROUND(AVERAGEIFS(" \o dataRanges.ctorR \o ","
                          \o dataRanges.startDateR \o ",B" \o NatToString(row)
                          \o "),4)"],
          [col |-> "V",
           formula |-> "ROUND(AVERAGEIFS(" \o dataRanges.avgViewR \o ","
                          \o dataRanges.startDateR \o ",B" \o NatToString(row)
                          \o "),0)"],
          [col |-> "W",
           formula |-> "MAXIFS(" \o dataRanges.likesR \o ","
                          \o dataRanges.startDateR \o ",B" \o NatToString(row)
                          \o ")"],
          [col |-> "X",
           formula |-> "MINIFS(" \o dataRanges.likesR \o ","
                          \o dataRanges.startDateR \o ",B" \o NatToString(row)
                          \o ")"],
          [col |-> "Y",
           formula |-> "ROUND(AVERAGEIFS(" \o dataRanges.likesR \o ","
                          \o dataRanges.startDateR \o ",B" \o NatToString(row)
                          \o "),0)"],
          [col |-> "Z",
           formula |-> "MAXIFS(" \o dataRanges.commentsR \o ","
                          \o dataRanges.startDateR \o ",B" \o NatToString(row)
                          \o ")"],
          [col |-> "AA",
           formula |-> "MINIFS(" \o dataRanges.commentsR \o ","
                          \o dataRanges.startDateR \o ",B" \o NatToString(row)
                          \o ")"],
          [col |-> "AB",
           formula |-> "ROUND(AVERAGEIFS(" \o dataRanges.commentsR \o ","
                          \o dataRanges.startDateR \o ",B" \o NatToString(row)
                          \o "),0)"],
          [col |-> "AC",
           formula |-> "MAXIFS(" \o dataRanges.sharesR \o ","
                          \o dataRanges.startDateR \o ",B" \o NatToString(row)
                          \o ")"],
          [col |-> "AD",
           formula |-> "MINIFS(" \o dataRanges.sharesR \o ","
                          \o dataRanges.startDateR \o ",B" \o NatToString(row)
                          \o ")"],
          [col |-> "AE",
           formula |-> "ROUND(AVERAGEIFS(" \o dataRanges.sharesR \o ","
                          \o dataRanges.startDateR \o ",B" \o NatToString(row)
                          \o "),0)"]>>

shopeeGenerateSummaryFormulas(startRow, lastRow) ==
    LET dataRanges == shopeeBuildDataRanges(startRow, lastRow)
    IN  <<[metric |-> "Avg Sales/Session",
           formula |-> "ROUND(AVERAGE(" \o dataRanges.grossR \o "),0)"],
          [metric |-> "Avg Sales/Day",
           formula |-> "ROUND(AVERAGE(metrics!H:H),0)"],
          [metric |-> "Avg CTR",
           formula |-> "ROUND(AVERAGE(" \o dataRanges.ctrR \o "),4)"],
          [metric |-> "Avg CTOR",
           formula |-> "ROUND(AVERAGE(" \o dataRanges.ctorR \o "),4)"],
          [metric |-> "Avg Viewers",
           formula |-> "ROUND(AVERAGE('clean data'!$I$"
                          \o NatToString(startRow) \o ":$I$"
                          \o NatToString(lastRow) \o "),0)"],
          [metric |-> "Avg Like",
           formula |-> "ROUND(AVERAGE(" \o dataRanges.likesR \o "),0)"],
          [metric |-> "Avg Comment",
           formula |-> "ROUND(AVERAGE(" \o dataRanges.commentsR \o "),0)"],
          [metric |-> "Avg Share",
           formula |-> "ROUND(AVERAGE(" \o dataRanges.sharesR \o "),0)"]>>

shopeeGenerateTrendFormulas(row, startRow, lastRow) ==
    LET dataRanges == shopeeBuildDataRanges(startRow, lastRow)
    IN  <<[col |-> "C",
           formula |-> "ROUND(AVERAGEIFS(" \o dataRanges.ctrR \o ","
                          \o dataRanges.montIndex \o ",A" \o NatToString(row)
                          \o "),4)"],
          [col |-> "D",
           formula |-> "ROUND(AVERAGEIFS(" \o dataRanges.ctorR \o ","
                          \o dataRanges.montIndex \o ",A" \o NatToString(row)
                          \o "),4)"],
          [col |-> "E",
           formula |-> "ROUND(AVERAGEIFS('clean data'!$I$"
                          \o NatToString(startRow) \o ":$I$"
                          \o NatToString(lastRow) \o "," \o dataRanges.montIndex
                          \o ",A" \o NatToString(row) \o "),0)"],
          [col |-> "F",
           formula |-> "ROUND(AVERAGEIFS(" \o dataRanges.likesR \o ","
                          \o dataRanges.montIndex \o ",A" \o NatToString(row)
                          \o "),0)"],
          [col |-> "G",
           formula |-> "ROUND(AVERAGEIFS(" \o dataRanges.commentsR \o ","
                          \o dataRanges.montIndex \o ",A" \o NatToString(row)
                          \o "),0)"],
          [col |-> "H",
           formula |-> "ROUND(AVERAGEIFS(" \o dataRanges.sharesR \o ","
                          \o dataRanges.montIndex \o ",A" \o NatToString(row)
                          \o "),0)"]>>

-----------------------------------------------------------------------------
(* The exported formula generators *)

\* generateRawDataFormulas(row, format)
generateRawDataFormulas(reg, row, format) ==
    IF DefinitionOrDefault(reg, format) = "shopeeFormat"
    THEN shopeeRawDataFormulasMonthly(row)
    ELSE tiktokGenerateRawDataFormulas(row)

\* buildDataRanges(startRow, lastRow, format)
buildDataRanges(reg, startRow, lastRow, format) ==
    IF DefinitionOrDefault(reg, format) = "shopeeFormat"
    THEN shopeeBuildDataRanges(startRow, lastRow)
    ELSE tiktokBuildDataRanges(startRow, lastRow)

\* generateMetricsFormulas(row, startRow, lastRow, format)
generateMetricsFormulas(reg, row, startRow, lastRow, format) ==
    IF DefinitionOrDefault(reg, format) = "shopeeFormat"
    THEN shopeeGenerateMetricsFormulas(row, startRow, lastRow)
    ELSE tiktokGenerateMetricsFormulas(row, startRow, lastRow)

\* a dispatch that hands every format the per-session formula twice: the
\* per-day entry recomputes from the clean-data range
generateSummaryFormulasFromClean(reg, startRow, lastRow, format) ==
    [i \in 1..Len(tiktokGenerateSummaryFormulas(startRow, lastRow)) |->
        IF i = 2
        THEN [metric |-> IF DefinitionOrDefault(reg, format) = "shopeeFormat"
                         THEN "Avg Sales/Day" ELSE "Avg GMV/Day",
              formula |-> "ROUND(AVERAGE('clean data'!$D$"
                             \o NatToString(startRow) \o ":$D$"
                             \o NatToString(lastRow) \o "),0)"]
        ELSE tiktokGenerateSummaryFormulas(startRow, lastRow)[i]]

\* generateSummaryFormulas(startRow, lastRow, format)
generateSummaryFormulas(reg, startRow, lastRow, format) ==
    IF DefinitionOrDefault(reg, format) = "shopeeFormat"
    THEN shopeeGenerateSummaryFormulas(startRow, lastRow)
    ELSE tiktokGenerateSummaryFormulas(startRow, lastRow)

\* generateTrendFormulas(row, startRow, lastRow, format)
generateTrendFormulas(reg, row, startRow, lastRow, format) ==
    IF DefinitionOrDefault(reg, format) = "shopeeFormat"
    THEN shopeeGenerateTrendFormulas(row, startRow, lastRow)
    ELSE tiktokGenerateTrendFormulas(row, startRow, lastRow)

\* Object.entries(formulas).forEach: cell.value = { formula } in row `row`
FormulaWrites(formulas, row) ==
    [i \in 1..Len(formulas) |->
        SetValue(row, ColumnNumber(formulas[i].col), Formula(formulas[i].formula))]

-----------------------------------------------------------------------------
(* processExcelFile: the derived columns of the clean sheet *)

RECURSIVE Gcd(_, _)
Gcd(a, b) == IF b = 0 THEN a ELSE Gcd(b, a % b)

\* the number p / q (q > 0): a decimal when it has a finite expansion within
\* nine places, else the fraction in lowest terms
Quotient(p, q) ==
    LET g == Gcd(IF p < 0 THEN 0 - p ELSE p, q)
        pp == IF g = 0 THEN 0 ELSE p \div g
        qq == IF g = 0 THEN 1 ELSE q \div g
        places == {e \in 0..9 : Pow10(e) % qq = 0}
    IN  IF places # {}
        THEN LET e == CHOOSE x \in places : \A y \in places : x <= y
             IN  Dec(pp * (Pow10(e) \div qq), e)
        ELSE [t |-> "frac", s |-> "", m |-> pp, e |-> qq]

\* numerator and denominator of a number value
Numerator(v) == v.m
Denominator(v) == IF v.t = "frac" THEN v.e ELSE Pow10(v.e)

NaN == [t |-> "nan", s |-> "", m |-> 0, e |-> 0]

\* a + b
Sum(a, b) ==
    IF a.t = "nan" \/ b.t = "nan" THEN NaN
    ELSE Quotient(Numerator(a) * Denominator(b) + Numerator(b) * Denominator(a),
                  Denominator(a) * Denominator(b))

\* the start date of a "DD-MM-YYYY[ time]" text: new Date(year, month - 1, day)
\* in the zone of the server, read as a date of Asia/Jakarta; the date part as
\* it is when it has no three parts.  toISOString throws on an Invalid Date.
StartDateOfText(text, zone) ==
    LET datePart == split(text, " ")[1]
        parts == split(datePart, "-")
        day == PartAt(parts, 1)
        month == PartAt(parts, 2)
        year == PartAt(parts, 3)
    IN  IF day # "" /\ month # "" /\ year # ""
        THEN IF parseInt(year).nan \/ parseInt(month).nan \/ parseInt(day).nan
             THEN [threw |-> TRUE, value |-> Str("")]
             ELSE [threw |-> FALSE,
                   value |-> Str(IsoDateInZone(
                                LocalDate(parseInt(year).n, parseInt(month).n - 1,
                                          parseInt(day).n, zone),
                                JakartaOffset))]
        ELSE [threw |-> FALSE, value |-> Str(datePart)]

\* Math.floor of a number value that is not negative
Floor(v) == Numerator(v) \div Denominator(v)

\* the daily branch: the start date from Periode Data of the clean sheet
DailyStartDate(periodeDataValue, zone) ==
    IF ~Truthy(periodeDataValue) THEN [threw |-> FALSE, value |-> Str("")]
    ELSE IF periodeDataValue.t = "str" THEN StartDateOfText(periodeDataValue.s, zone)
    ELSE \* an Excel serial date: (serial - 25569) * 86400 * 1000 ms
         [threw |-> FALSE,
          value |-> Str(IsoDateInZone(
                       (Numerator(periodeDataValue) * 1440) \div
                           Denominator(periodeDataValue) - 25569 * 1440,
                       JakartaOffset))]

\* the monthly branch: the start date from Start Time (E) of the input
MonthlyStartDate(startTimeValue, zone) ==
    IF ~Truthy(startTimeValue) THEN [threw |-> FALSE, value |-> Str("")]
    ELSE IF startTimeValue.t = "str" THEN StartDateOfText(startTimeValue.s, zone)
    ELSE \* new TZDate(number, "Asia/Jakarta"): the number is a time in ms
         [threw |-> FALSE,
          value |-> Str(IsoDateInZone(Floor(startTimeValue) \div 60000,
                                      JakartaOffset))]

\* startTimeOnly: the time of day as a fraction of a day, Null for null
MonthlyStartTime(startTimeValue) ==
    IF ~Truthy(startTimeValue) THEN Null
    ELSE IF startTimeValue.t = "str"
    THEN LET timePart == PartAt(split(startTimeValue.s, " "), 2)
             hm == split(timePart, ":")
             hours == ToNumber(PartAt(hm, 1))
             minutes == ToNumber(PartAt(hm, 2))
         IN  IF timePart # "" /\ Len(hm) >= 2 /\ ~hours.nan /\ ~minutes.nan
             THEN Quotient(hours.n * 60 + minutes.n, 1440)
             ELSE Null
    ELSE \* startTimeValue - Math.floor(startTimeValue)
         Quotient(Numerator(startTimeValue)
                     - Floor(startTimeValue) * Denominator(startTimeValue),
                  Denominator(startTimeValue))

\* parseInt(text) || 0
IntOrZero(text) == IF parseInt(text).nan THEN 0 ELSE parseInt(text).n

\* durasiInDays of the Durasi cell (F) of the input
DurasiInDays(durasiValue) ==
    IF durasiValue.t = "str"
    THEN LET timeParts == split(durasiValue.s, ":")
         IN  IF Len(timeParts) >= 2
             THEN IF PartAt(timeParts, 3) # "" /\ parseInt(timeParts[3]).nan
                  THEN NaN
                  ELSE Quotient(IntOrZero(timeParts[1]) * 3600
                                  + IntOrZero(timeParts[2]) * 60
                                  + (IF PartAt(timeParts, 3) # ""
                                     THEN parseInt(timeParts[3]).n ELSE 0),
                                86400)
             ELSE Num(0)
    ELSE Quotient(Numerator(durasiValue), Denominator(durasiValue) * 86400)

\* endTimeValue
MonthlyEndTime(startTimeOnly, durasiValue) ==
    IF startTimeOnly # Null /\ Truthy(durasiValue)
    THEN Sum(startTimeOnly, DurasiInDays(durasiValue))
    ELSE IF startTimeOnly # Null THEN startTimeOnly
    ELSE Str("")

-----------------------------------------------------------------------------
(* Input worksheets *)

RECURSIVE SeqsUpTo(_, _)
SeqsUpTo(S, n) ==
    IF n = 0 THEN {<<>>}
    ELSE LET shorter == SeqsUpTo(S, n - 1)
         IN  shorter \cup {Append(q, x) : q \in shorter, x \in S}

RECURSIVE Titles(_)
Titles(k) == IF k = 0 THEN <<>> ELSE Append(Titles(k - 1), TitleRow)

\* sheets that vary the place and the content of the header block
DetectSheets ==
    {Titles(k) \o hb \o <<RowFull>> : k \in 0..MaxLead, hb \in HeaderBlocks}

\* sheets that vary the rows below a header
ShapeSheets ==
    {<<h>> \o rows \o <<RowFull>> :
        h \in {HdrTiktok, HdrShopeeDaily}, rows \in SeqsUpTo(AnchorRows, MaxData)}

LibrarySheets == DetectSheets \cup ShapeSheets

\* data rows of a TikTok export (columns A..W; the second row ends at V)
TiktokRow1 ==
    <<Str("Live A"), Str("2025-10-31 20:00"), Num(3600), Str("Rp1.500.000"),
      Str("Rp1.200.000"), Str("1,234"), Num(10), Str("Rp 125.000"), Num(11),
      Str("Rp50.000"), Str("Rp40.000"), Num(1000), Num(800), Num(90), Num(5),
      Num(45), Num(300), Num(20), Num(4), Num(5000), Num(250), Str("5.00%"),
      Str("4,4 %")>>
TiktokRow2 ==
    <<Str(" Live B "), Str("2025-11-01 09:30"), Str("7200"), Num(2000000),
      Str("$1,800.50"), Num(0), Str("n/a"), Str(""), Null, Num(0),
      Str("Rp40.000"), Str("2 000"), Num(700), Num(80), Num(6), Str("52.5"),
      Num(310), Num(21), Num(5), Num(5100), Num(260), Dec(55, 3)>>

\* data rows of a Shopee daily export (canonical columns A..Q)
ShopeeDailyRow1 ==
    <<Str("31-10-2025"), Str("778899"), Str("Rp1.500.000"), Str("Rp1.200.000"),
      Str("15"), Str("12"), Str("18"), Str("14"), Str("1.000"), Str("640"),
      Str("00:01:30"), Str("5,25%"), Str("1,5%"), Str("1,2%"), Str("300"),
      Str("4"), Str("20")>>
ShopeeDailyRow2 ==
    <<Str("01-11-2025"), Num(778899), Num(900000), Num(0), Num(9), Num(0),
      Num(11), Num(0), Num(500), Num(320), Str("00:00:45"), Dec(4, 2),
      Str("0%"), Str(""), Num(120), Num(2)>>

\* data rows of a Shopee monthly (livestream) export (columns A..Q)
ShopeeMonthlyRow1 ==
    <<Str("01-11-2025-30-11-2025"), Num(778899), Num(1), Str("Promo 11.11"),
      Str("29-11-2025 12:58"), Str("4:02:02"), Num(640), Num(20), Num(35),
      Str("0:01:30"), Num(1000), Num(15), Num(12), Num(18), Num(14),
      Str("Rp1.500.000"), Str("Rp1.200.000")>>
ShopeeMonthlyRow2 ==
    <<Str("01-10-2025-31-10-2025"), Num(778899), Num(2), Str("Flash sale"),
      Str("31-10-2025 23:30"), Num(0), Num(320), Num(7), Num(12),
      Str("0:00:45"), Num(500), Num(9), Num(0), Num(11), Num(0),
      Num(900000), Num(0)>>

\* a row of a monthly export whose Start Time is the Excel serial number of
\* 31-10-2025 12:00
ShopeeMonthlySerialRow ==
    <<Str("01-10-2025-31-10-2025"), Num(778899), Num(3), Str("Payday"),
      Dec(459615, 1), Str("1:00:00"), Num(410), Num(9), Num(15),
      Str("0:01:10"), Num(700), Num(10), Num(8), Num(12), Num(9),
      Str("Rp1.000.000"), Str("Rp800.000")>>

\* rows of a daily export whose Periode Data is no DD-MM-YYYY text: a word,
\* and three parts of which the first is no number
ShopeeDailyWordRow ==
    <<Str("TBD"), Str("778899"), Str("Rp700.000"), Str("Rp600.000"),
      Str("7"), Str("6"), Str("8"), Str("7"), Str("400"), Str("250"),
      Str("00:01:00"), Str("3,5%"), Str("1,1%"), Str("1,0%"), Str("100"),
      Str("2"), Str("10")>>
ShopeeDailyMonthNameRow ==
    <<Str("Okt-31-2025"), Str("778899"), Str("Rp700.000"), Str("Rp600.000"),
      Str("7"), Str("6"), Str("8"), Str("7"), Str("400"), Str("250"),
      Str("00:01:00"), Str("3,5%"), Str("1,1%"), Str("1,0%"), Str("100"),
      Str("2"), Str("10")>>

\* the inputs of the pipeline: a header, the data rows that may follow it,
\* the number of title rows above it (a TikTok export opens with a title row)
PipelineKinds ==
    {[header |-> HdrTiktok, rows |-> {TiktokRow1, TiktokRow2}, titles |-> {1}],
     [header |-> HdrShopeeDaily, rows |-> {ShopeeDailyRow1, ShopeeDailyRow2},
      titles |-> {0}],
     [header |-> HdrShopeeMonthly, rows |-> {ShopeeMonthlyRow1, ShopeeMonthlyRow2},
      titles |-> {0}],
     [header |-> HdrShopeeMonthly, rows |-> {ShopeeMonthlySerialRow}, titles |-> {0}],
     [header |-> HdrShopeeDaily, rows |-> {ShopeeDailyWordRow, ShopeeDailyMonthNameRow},
      titles |-> {0}],
     [header |-> HdrTiktokPartial, rows |-> {TiktokRow1}, titles |-> {0}]}

\* data rows of a pipeline input
MaxRows == 2

\* what follows the header: up to MaxRows data rows, or a blank row and
\* whatever stands below it
Bodies(rows) ==
    SeqsUpTo(rows, MaxRows) \cup {<<RowBlank>> \o below : below \in SeqsUpTo(rows, 1)}

\* daily exports whose header is followed by a secondary header row
SecondaryHeaderSheets ==
    {<<HdrShopeeDaily, second, ShopeeDailyRow2>> :
        second \in {HdrShopeeDaily, HdrShopeeEnglish, HdrShopeeMonthly}}

\* first worksheets of uploaded files
PipelineSheets ==
    UNION {{Titles(k) \o <<kind.header>> \o body :
               k \in kind.titles, body \in Bodies(kind.rows)} :
           kind \in PipelineKinds}
        \cup SecondaryHeaderSheets

-----------------------------------------------------------------------------
(* The library calls: after module load a caller may re-register           *)
(* definitions and then applies one library function to a worksheet.       *)

NoCall == [fn |-> "none", def |-> "", startRow |-> NullRow, format |-> ""]
NoRet == [formatId |-> "", startRow |-> NullRow, lastRow |-> NullRow]

\* the sheets of the output workbook
SheetNames == {"raw data", "clean data", "metrics", "summary", "trend"}

\* before new ExcelJS.Workbook(): no sheet, no cell
NoWorkbook == [names |-> <<>>, cells |-> [n \in SheetNames |-> EmptySheet]]

\* the locals of processExcelFile before they are assigned
NoJob ==
    [format |-> "", startRow |-> NullRow, lastRow |-> NullRow,
     isShopeeDailyFormat |-> FALSE, uniqueDatesCount |-> 0, seenDates |-> <<>>,
     uniqueMonths |-> <<>>, detectedCurrency |-> "", error |-> ""]

NoResponse == [status |-> 0, body |-> ""]
NoRequest == [files |-> 0, done |-> 0, processedFiles |-> <<>>, response |-> NoResponse]

\* the module has not been loaded, no request has been received
InitLibrary ==
    /\ registry = <<>>
    /\ warnings = 0
    /\ loaded = 0
    /\ ws = <<>>
    /\ call = NoCall
    /\ ret = NoRet
    /\ request = NoRequest
    /\ pc = "idle"
    /\ job = NoJob
    /\ workbook = NoWorkbook
    /\ steps = <<>>

InitDetect ==
    /\ InitLibrary
    /\ systemOffset = JakartaOffset

\* registerExcelFormat(tiktokFormat); at module load
LoadTiktok ==
    /\ loaded = 0
    /\ registerExcelFormat("tiktokFormat")
    /\ loaded' = 1
    /\ UNCHANGED <<ws, call, ret>>
    /\ UNCHANGED pipelineVars

\* registerExcelFormat(shopeeFormat); at module load
LoadShopee ==
    /\ loaded = 1
    /\ registerExcelFormat("shopeeFormat")
    /\ loaded' = 2
    /\ UNCHANGED <<ws, call, ret>>
    /\ UNCHANGED pipelineVars

\* a later call of the exported registerExcelFormat
RegisterCall(d) ==
    /\ loaded = 2
    /\ call.fn \in {"none", "registerExcelFormat"}
    /\ warnings < MaxWarnings
    /\ registerExcelFormat(d)
    /\ call' = [fn |-> "registerExcelFormat", def |-> d, startRow |-> NullRow, format |-> ""]
    /\ UNCHANGED <<loaded, ws, ret>>
    /\ UNCHANGED pipelineVars

DetectFormatCall(w) ==
    /\ loaded = 2
    /\ call.fn \in {"none", "registerExcelFormat"}
    /\ ws' = w
    /\ call' = [fn |-> "detectFormat", def |-> "", startRow |-> NullRow, format |-> ""]
    /\ LET result == detectFormat(registry, w)
       IN  ret' = [formatId |-> result.formatId, startRow |-> result.startRow,
                   lastRow |-> NullRow]
    /\ UNCHANGED <<registry, warnings, loaded>>
    /\ UNCHANGED pipelineVars

\* formatDef.detect(worksheet) of one definition
DetectProbeCall(d, w) ==
    /\ loaded = 2
    /\ call.fn = "none"
    /\ ws' = w
    /\ call' = [fn |-> "detect", def |-> d, startRow |-> NullRow, format |-> ""]
    /\ ret' = [formatId |-> "", startRow |-> Detect(d, w), lastRow |-> NullRow]
    /\ UNCHANGED <<registry, warnings, loaded>>
    /\ UNCHANGED pipelineVars

\* start rows handed to detectDataLength (NullRow: argument omitted)
StartRowArgs == {NullRow, 2, 3}

\* formats handed to detectDataLength ("": argument omitted)
FormatArgs == {"", "TIKTOK_LIVESTREAM", "SHOPEE_MONTHLY"}

DetectDataLengthCall(w, startRow, format) ==
    /\ loaded = 2
    /\ call.fn = "none"
    /\ ws' = w
    /\ call' = [fn |-> "detectDataLength", def |-> "", startRow |-> startRow,
                format |-> format]
    /\ LET shape == detectDataLength(registry, w, startRow, format)
       IN  ret' = [formatId |-> "", startRow |-> shape.startRow,
                   lastRow |-> shape.lastRow]
    /\ UNCHANGED <<registry, warnings, loaded>>
    /\ UNCHANGED pipelineVars

NextDetect ==
    \/ LoadTiktok
    \/ LoadShopee
    \/ \E d \in FormatDefs : RegisterCall(d)
    \/ \E w \in LibrarySheets : DetectFormatCall(w)
    \/ \E d \in FormatDefs, w \in LibrarySheets : DetectProbeCall(d, w)
    \/ \E w \in ShapeSheets, s \in StartRowArgs, f \in FormatArgs :
          DetectDataLengthCall(w, s, f)

SpecDetect == InitDetect /\ [][NextDetect]_vars

-----------------------------------------------------------------------------
(* Calls of the exported value cleaners.  The value cleaned is cell A1 of  *)
(* ws, the result is ret.value.                                            *)

\* hours of the H:MM:SS texts handed to the cleaners
MaxHours == 2

MinuteSamples == {0, 2, 9}
SecondSamples == {0, 2, 6, 18, 54}

\* texts of the form H:MM:SS
TimeTexts ==
    {NatToString(h) \o ":" \o Pad2(m) \o ":" \o Pad2(sec) :
        h \in 0..MaxHours, m \in MinuteSamples, sec \in SecondSamples}

\* the values handed to the cleaners: amounts, percentages, counts, durations,
\* texts that hold no number, numbers, empty cells
CleanerInputs ==
    {Str(t) : t \in TimeTexts}
      \cup {Str("Rp1.500.000"), Str("$1,500.00"), Str("Rp 125.000"), Str("1'250"),
            Str("15%"), Str("0.15"), Str("12,5 %"), Str("5,25%"), Str("%"), Str("15"),
            Str("abc"), Str("n/a"), Str(""), Str(" 7200 "), Str("1,234"), Str("2.5"),
            Str("4:02:02"), Str("4:02"), Str("1:2:3:4"), Str("x:00:00"),
            Num(1500), Num(0), Dec(15, 2), Dec(403, 2), Null}

CleanCurrencyCall(value) ==
    /\ call.fn = "none"
    /\ ws' = <<<<value>>>>
    /\ call' = [fn |-> "cleanCurrencyValue", def |-> "", startRow |-> NullRow, format |-> ""]
    /\ ret' = [formatId |-> "", startRow |-> NullRow, lastRow |-> NullRow,
               value |-> cleanCurrencyValue(value)]
    /\ UNCHANGED <<registry, warnings, loaded>>
    /\ UNCHANGED pipelineVars

CleanPercentageCall(value) ==
    /\ call.fn = "none"
    /\ ws' = <<<<value>>>>
    /\ call' = [fn |-> "cleanPercentageValue", def |-> "", startRow |-> NullRow, format |-> ""]
    /\ ret' = [formatId |-> "", startRow |-> NullRow, lastRow |-> NullRow,
               value |-> cleanPercentageValue(value)]
    /\ UNCHANGED <<registry, warnings, loaded>>
    /\ UNCHANGED pipelineVars

CleanNumericCall(value) ==
    /\ call.fn = "none"
    /\ ws' = <<<<value>>>>
    /\ call' = [fn |-> "cleanNumericValue", def |-> "", startRow |-> NullRow, format |-> ""]
    /\ ret' = [formatId |-> "", startRow |-> NullRow, lastRow |-> NullRow,
               value |-> cleanNumericValue(value)]
    /\ UNCHANGED <<registry, warnings, loaded>>
    /\ UNCHANGED pipelineVars

CleanTextCall(value) ==
    /\ call.fn = "none"
    /\ ws' = <<<<value>>>>
    /\ call' = [fn |-> "cleanTextValue", def |-> "", startRow |-> NullRow, format |-> ""]
    /\ ret' = [formatId |-> "", startRow |-> NullRow, lastRow |-> NullRow,
               value |-> cleanTextValue(value)]
    /\ UNCHANGED <<registry, warnings, loaded>>
    /\ UNCHANGED pipelineVars

CleanDurationCall(value) ==
    /\ call.fn = "none"
    /\ ws' = <<<<value>>>>
    /\ call' = [fn |-> "cleanDurationValue", def |-> "", startRow |-> NullRow, format |-> ""]
    /\ ret' = [formatId |-> "", startRow |-> NullRow, lastRow |-> NullRow,
               value |-> cleanDurationValue(value)]
    /\ UNCHANGED <<registry, warnings, loaded>>
    /\ UNCHANGED pipelineVars

NextClean ==
    \/ \E value \in CleanerInputs : CleanCurrencyCall(value)
    \/ \E value \in CleanerInputs : CleanPercentageCall(value)
    \/ \E value \in CleanerInputs : CleanNumericCall(value)
    \/ \E value \in CleanerInputs : CleanTextCall(value)
    \/ \E value \in CleanerInputs : CleanDurationCall(value)

SpecClean == InitDetect /\ [][NextClean]_vars

-----------------------------------------------------------------------------
(* The orchestrator: POST and processExcelFile.  JavaScript runs each      *)
(* section of processExcelFile to completion; the sections are the steps   *)
(* the code marks with its comments.                                       *)

\* files of one request
MaxFiles == 2

UnsupportedMessage ==
    "Unsupported file format. Supported formats: TikTok Livestream, Shopee Livestream (Monthly/Daily CSV)"

\* POST up to the dispatch on files.length
Post(n) ==
    /\ loaded = 2
    /\ pc = "idle"
    /\ request = NoRequest
    /\ IF n = 0
       THEN /\ request' = [request EXCEPT
                               !.response = [status |-> 400,
                                             body |-> "json: No files provided"]]
            /\ pc' = "responded"
       ELSE /\ request' = [request EXCEPT !.files = n]
            /\ pc' = "start"
    /\ UNCHANGED <<registry, warnings, loaded, ws, call, ret, systemOffset, job,
                   workbook, steps>>

\* processExcelFile: the file is read and its first worksheet taken
StartFile(w) ==
    /\ pc = "start"
    /\ ws' = w
    /\ job' = NoJob
    /\ workbook' = NoWorkbook
    /\ steps' = <<"read">>
    /\ pc' = "detectFormat"
    /\ UNCHANGED <<registry, warnings, loaded, call, ret, systemOffset, request>>

\* processExcelFile: the file holds no worksheet
StartFileNoWorksheet ==
    /\ pc = "start"
    /\ ws' = <<>>
    /\ workbook' = NoWorkbook
    /\ steps' = <<"read">>
    /\ pc' = "failed"
    /\ job' = [NoJob EXCEPT !.error = "No worksheet found in the file"]
    /\ UNCHANGED <<registry, warnings, loaded, call, ret, systemOffset, request>>

\* a format detection that goes on with an unsupported input
DetectFormatStepNoThrow ==
    /\ pc = "detectFormat"
    /\ pc' = "detectShape"
    /\ job' = [job EXCEPT !.format = detectExcelFormat(registry, ws)]
    /\ steps' = Append(steps, "detectFormat")
    /\ UNCHANGED <<registry, warnings, loaded, ws, call, ret, systemOffset, request,
                   workbook>>

\* const format = detectExcelFormat(inputWorksheet); the UNSUPPORTED throw
DetectFormatStep ==
    /\ pc = "detectFormat"
    /\ LET format == detectExcelFormat(registry, ws)
       IN  IF format = "UNSUPPORTED"
           THEN /\ pc' = "failed"
                /\ job' = [job EXCEPT !.format = format,
                                       !.error = UnsupportedMessage]
           ELSE /\ pc' = "detectShape"
                /\ job' = [job EXCEPT !.format = format]
    /\ steps' = Append(steps, "detectFormat")
    /\ UNCHANGED <<registry, warnings, loaded, ws, call, ret, systemOffset, request,
                   workbook>>

\* const { startRow, lastRow } = detectDataLength(inputWorksheet, undefined, format)
DetectShapeStep ==
    /\ pc = "detectShape"
    /\ LET shape == detectDataLength(registry, ws, NullRow, job.format)
       IN  job' = [job EXCEPT !.startRow = shape.startRow, !.lastRow = shape.lastRow]
    /\ steps' = Append(steps, "detectShape")
    /\ pc' = "copyRaw"
    /\ UNCHANGED <<registry, warnings, loaded, ws, call, ret, systemOffset, request,
                   workbook>>

\* inputWorksheet.eachRow / row.eachCell: every cell that holds a value
RawCopy(input) ==
    LET filled == {k \in UNION {{<<r, c>> : c \in 1..Len(input[r])} :
                                   r \in 1..Len(input)} :
                      input[k[1]][k[2]] # Null}
    IN  [k \in filled |-> [value |-> input[k[1]][k[2]], numFmt |-> "", writes |-> 1]]

\* the output workbook is created with its sheets "raw data" and
\* "clean data", and the input is copied as it is
CopyRawStep ==
    /\ pc = "copyRaw"
    /\ workbook' = [names |-> <<"raw data", "clean data">>,
                    cells |-> [NoWorkbook.cells EXCEPT !["raw data"] = RawCopy(ws)]]
    /\ steps' = Append(steps, "copyRaw")
    /\ pc' = "clean"
    /\ UNCHANGED <<registry, warnings, loaded, ws, call, ret, systemOffset, request,
                   job>>

\* a normalization that hands over to the metrics without the derived columns
CleanStepSkipsDerive ==
    /\ pc = "clean"
    /\ workbook' = [workbook EXCEPT !.cells["clean data"] =
                        cleanAndCopyData(registry, ws, @, job.startRow, job.lastRow,
                                         job.format)]
    /\ steps' = Append(steps, "clean")
    /\ pc' = "metrics"
    /\ UNCHANGED <<registry, warnings, loaded, ws, call, ret, systemOffset, request,
                   job>>

\* cleanAndCopyData(inputWorksheet, cleanDataSheet, startRow, lastRow, format)
CleanStep ==
    /\ pc = "clean"
    /\ workbook' = [workbook EXCEPT !.cells["clean data"] =
                        cleanAndCopyData(registry, ws, @, job.startRow, job.lastRow,
                                         job.format)]
    /\ steps' = Append(steps, "clean")
    /\ pc' = "derive"
    /\ UNCHANGED <<registry, warnings, loaded, ws, call, ret, systemOffset, request,
                   job>>

\* a cleanLastRow that counts the row before startRow as a data row
CleanLastRowFromHeader(j) == (j.lastRow - (j.startRow - 1) + 1) + 1

\* cleanLastRow = (lastRow - startRow + 1) + 1
CleanLastRow(j) == (j.lastRow - j.startRow + 1) + 1

\* the operations Ops(row) of the rows from..to, one row after the other
RECURSIVE ForRows(_, _, _)
ForRows(Ops(_), from, to) ==
    IF from > to THEN <<>> ELSE Ops(from) \o ForRows(Ops, from + 1, to)

\* isShopeeDailyFormat, from column D of the header row of the input
IsShopeeDaily(input, format, startRow) ==
    IF format = "SHOPEE_MONTHLY"
    THEN LET valueD == LowerText(getCell(input, startRow - 1, 4))
         IN  ~(includes(valueD, "nama livestream") \/ includes(valueD, "livestream"))
    ELSE FALSE

tiktokNewRawDataHeaders ==
    <<"Start Date", "Start Time", "End Time", "Week in Year", "Month", "GMV/Hour">>

shopeeNewRawDataHeaders ==
    <<"Start Date", "Start Time", "End Time", "Week in Year", "Month", "GMV/hour">>

\* formatHeaders.forEach: the headers of the derived columns, R..W or X..AC
DerivedHeaderWrites(format) ==
    LET formatHeaders == IF format = "SHOPEE_MONTHLY" THEN shopeeNewRawDataHeaders
                         ELSE tiktokNewRawDataHeaders
        startColumns == IF format = "SHOPEE_MONTHLY"
                        THEN <<"R", "S", "T", "U", "V", "W">>
                        ELSE <<"X", "Y", "Z", "AA", "AB", "AC">>
    IN  [i \in 1..Len(formatHeaders) |->
            SetValue(1, ColumnNumber(startColumns[i]), Str(formatHeaders[i]))]

\* one pass of the loop over the clean rows: what it writes into row `row`,
\* or threw = TRUE when the start date cannot be formed
DerivedRow(row) ==
    IF job.format = "SHOPEE_MONTHLY"
    THEN IF IsShopeeDaily(ws, job.format, job.startRow)
         THEN LET clean == workbook.cells["clean data"]
                  startDate == DailyStartDate(cellAt(clean, row, 1).value, systemOffset)
              IN  [threw |-> startDate.threw,
                   ops |-> <<SetValue(row, 18, startDate.value)>>
                              \o FormulaWrites(shopeeDailyFormulas(row), row)]
         ELSE LET rawDataRow == job.startRow + (row - 2)
                  startTimeValue == getCell(ws, rawDataRow, 5)
                  durasiValue == getCell(ws, rawDataRow, 6)
                  startDate == MonthlyStartDate(startTimeValue, systemOffset)
                  startTimeOnly == MonthlyStartTime(startTimeValue)
                  endTimeValue == MonthlyEndTime(startTimeOnly, durasiValue)
              IN  [threw |-> startDate.threw,
                   ops |-> <<SetValue(row, 18, startDate.value),
                             SetValue(row, 19, IF startTimeOnly # Null
                                               THEN startTimeOnly ELSE Str("")),
                             SetNumFmt(row, 19, "HH:mm"),
                             SetValue(row, 20, endTimeValue),
                             SetNumFmt(row, 20, "HH:mm")>>
                              \o FormulaWrites(shopeeMonthlyFormulas(row, rawDataRow),
                                               row)]
    ELSE [threw |-> FALSE,
          ops |-> FormulaWrites(generateRawDataFormulas(registry, row, job.format), row)]

\* the rows of the loop that complete: all of them, or those before the
\* first one that throws
RECURSIVE DerivedRowsDone(_, _)
DerivedRowsDone(row, cleanLastRow) ==
    IF row > cleanLastRow \/ DerivedRow(row).threw THEN row - 1
    ELSE DerivedRowsDone(row + 1, cleanLastRow)

DerivedRowOps(row) == DerivedRow(row).ops

\* the variant is detected, the headers and the cells of the derived columns
\* are written
DeriveStep ==
    /\ pc = "derive"
    /\ LET cleanLastRow == CleanLastRow(job)
           done == DerivedRowsDone(2, cleanLastRow)
           ops == DerivedHeaderWrites(job.format) \o ForRows(DerivedRowOps, 2, done)
       IN  /\ workbook' = [workbook EXCEPT !.cells["clean data"] = ApplyWrites(@, ops)]
           /\ IF done < cleanLastRow
              THEN /\ pc' = "failed"
                   /\ job' = [job EXCEPT
                                  !.isShopeeDailyFormat =
                                      IsShopeeDaily(ws, job.format, job.startRow),
                                  !.error = "Invalid time value"]
              ELSE /\ pc' = "metrics"
                   /\ job' = [job EXCEPT
                                  !.isShopeeDailyFormat =
                                      IsShopeeDaily(ws, job.format, job.startRow)]
    /\ steps' = Append(steps, "derive")
    /\ UNCHANGED <<registry, warnings, loaded, ws, call, ret, systemOffset, request>>

metricsHeaders ==
    <<"Day", "Date", "Week", "Jumlah Sesi", "Avg Revenue", "Sum", "Median CTR",
      "AVG CTR", "Median CTOR", "AVG CTOR", "Avg, view duration", "Sum Share",
      "Sum Comment", "Sum Likes", "sum Viewers", "Median GMV/1K shows">>

\* set.add(x) on a Set kept in insertion order
SetAdd(set, x) == IF \E i \in 1..Len(set) : set[i] = x THEN set ELSE Append(set, x)

\* what one date cell of the clean sheet contributes to the scan: its month
\* and its date text, found = FALSE when the cell is skipped
ScannedDate(value, zone) ==
    IF ~Truthy(value) THEN [found |-> FALSE, month |-> 0, dateValue |-> ""]
    ELSE IF value.t = "str"
    THEN LET dateObj == ParseDate(value.s, zone)
         IN  IF dateObj.valid
             THEN [found |-> TRUE, month |-> MonthInZone(dateObj.instant, zone),
                   dateValue |-> IsoDateInZone(dateObj.instant, zone)]
             ELSE [found |-> FALSE, month |-> 0, dateValue |-> ""]
    ELSE IF value.t = "num"
    THEN \* new Date(ms): getMonth() of the server's zone, toISOString() of UTC
         LET instant == Floor(value) \div 60000
         IN  [found |-> TRUE, month |-> MonthInZone(instant, zone),
              dateValue |-> IsoDateInZone(instant, 0)]
    ELSE [found |-> FALSE, month |-> 0, dateValue |-> ""]

\* a scan that counts every dated row, seen before or not
ScanAddEveryRow(acc, scanned) ==
    IF scanned.found
    THEN [seenDates |-> Append(acc.seenDates, scanned.dateValue),
          uniqueMonths |-> SetAdd(acc.uniqueMonths, scanned.month)]
    ELSE acc

\* if (!seenDates.has(dateValue)) { ...add(dateValue) }, uniqueMonths.add(month)
ScanAdd(acc, scanned) ==
    IF scanned.found
    THEN [seenDates |-> SetAdd(acc.seenDates, scanned.dateValue),
          uniqueMonths |-> SetAdd(acc.uniqueMonths, scanned.month)]
    ELSE acc

\* the scan of the date column over the clean rows row..cleanLastRow
RECURSIVE ScanDates(_, _, _, _, _)
ScanDates(clean, dateColumn, row, cleanLastRow, acc) ==
    IF row > cleanLastRow THEN acc
    ELSE ScanDates(clean, dateColumn, row + 1, cleanLastRow,
                   ScanAdd(acc, ScannedDate(cellAt(clean, row, dateColumn).value,
                                            systemOffset)))

\* the formulas of one metrics row; B is set in row 2 only
MetricsRowOps(row) ==
    FormulaWrites(SelectSeq(generateMetricsFormulas(registry, row, 2, CleanLastRow(job),
                                                    job.format),
                            LAMBDA f : f.col # "B" \/ row = 2),
                  row)

\* the sheet "metrics": its headers, the scan for the dates and months, the
\* formula of B2 and the formula rows
MetricsStep ==
    /\ pc = "metrics"
    /\ \E cleanLastRow \in {CleanLastRow(job)} :
       \E dateColumn \in {IF job.format = "SHOPEE_MONTHLY" THEN ColumnNumber("R")
                           ELSE ColumnNumber("B")} :
       \E scan \in {IF cleanLastRow > 1
                     THEN ScanDates(workbook.cells["clean data"], dateColumn, 2,
                                    cleanLastRow,
                                    [seenDates |-> <<>>, uniqueMonths |-> <<>>])
                     ELSE [seenDates |-> <<>>, uniqueMonths |-> <<>>]} :
       \E uniqueDatesCount \in {Len(scan.seenDates)} :
       \E dataRanges \in {buildDataRanges(registry, 2, cleanLastRow, job.format)} :
       \E b2 \in {"IFERROR(SORT(UNIQUE(FILTER(" \o dataRanges.startDateR \o ","
                      \o dataRanges.startDateR \o "<>\"\"))),\"\")"} :
          /\ workbook' = [workbook EXCEPT
                              !.names = Append(@, "metrics"),
                              !.cells["metrics"] =
                                  ApplyWrites(@,
                                      HeaderWrites(metricsHeaders)
                                        \o (IF cleanLastRow > 1
                                            THEN <<SetValue(2, 2, Formula(b2))>>
                                                   \o ForRows(MetricsRowOps, 2,
                                                              uniqueDatesCount + 1)
                                            ELSE <<>>))]
          /\ job' = [job EXCEPT !.uniqueDatesCount = uniqueDatesCount,
                                 !.seenDates = scan.seenDates,
                                 !.uniqueMonths = scan.uniqueMonths]
    /\ steps' = Append(steps, "metrics")
    /\ pc' = "format"
    /\ UNCHANGED <<registry, warnings, loaded, ws, call, ret, systemOffset, request>>

\* the currency a cell text names; "" when it names none (of the signs in
\* the list of detectCurrencyFromData, those the inputs can hold)
CurrencyOfText(text) ==
    CASE includes(text, "$") -> "USD"
      [] includes(text, "RM") -> "MYR"
      [] includes(text, "Rp") -> "IDR"
      [] OTHER -> ""

\* detectCurrencyFromData(worksheet, startRow, lastRow): columns D and E of
\* the first rows, "IDR" when no sign is found
RECURSIVE detectCurrencyFrom(_, _, _, _)
detectCurrencyFrom(w, row, col, lastScanned) ==
    IF row > lastScanned THEN "IDR"
    ELSE LET value == IF getCell(w, row, col) = Null THEN ""
                      ELSE ValueToString(getCell(w, row, col))
         IN  IF CurrencyOfText(value) # "" THEN CurrencyOfText(value)
             ELSE IF col = 4 THEN detectCurrencyFrom(w, row, 5, lastScanned)
             ELSE detectCurrencyFrom(w, row + 1, 4, lastScanned)

detectCurrencyFromData(w, startRow, lastRow) ==
    detectCurrencyFrom(w, startRow, 4,
                       IF startRow + 5 < lastRow THEN startRow + 5 ELSE lastRow)

getAdvancedCurrencyFormat(currency) ==
    CASE currency = "USD" -> "$#,##0.00_);[Red]($#,##0.00)"
      [] currency = "MYR" -> "RM#,##0.00_);[Red](RM#,##0.00)"
      [] OTHER -> "Rp#,##0.00_);[Red](Rp#,##0.00)"

\* the 1-based columns of the definition whose cleaning rule is `rule`
ColumnsWithRule(d, rule) ==
    SelectSeq([i \in 1..Len(Headers(d)) |-> i],
              LAMBDA c : CleaningRule(d, c - 1) = rule)

\* cell.numFmt = fmt for the columns, in rows startRow..lastRow
RECURSIVE NumFmtRows(_, _, _, _)
NumFmtRows(columns, fmt, row, lastRow) ==
    IF row > lastRow THEN <<>>
    ELSE [i \in 1..Len(columns) |-> SetNumFmt(row, columns[i], fmt)]
            \o NumFmtRows(columns, fmt, row + 1, lastRow)

applyPercentageFormatting(reg, startRow, lastRow, format) ==
    LET d == getFormatDefinition(reg, format)
    IN  NumFmtRows(IF d = "" THEN <<22, 23>> ELSE ColumnsWithRule(d, "percentage"),
                   "0.00%", startRow, lastRow)

applyCurrencyFormatting(reg, startRow, lastRow, currency, format) ==
    LET d == getFormatDefinition(reg, format)
    IN  NumFmtRows(IF d = "" THEN <<4, 5, 8, 10, 11>>
                   ELSE ColumnsWithRule(d, "currency"),
                   getAdvancedCurrencyFormat(currency), startRow, lastRow)

applyDurationFormatting(reg, startRow, lastRow, format) ==
    LET d == getFormatDefinition(reg, format)
    IN  IF d = "" THEN <<>>
        ELSE NumFmtRows(ColumnsWithRule(d, "duration"), "0.00", startRow, lastRow)

\* columns E, F as currency, G..J as percentages
applyMetricsFormatting(startRow, lastRow, currency) ==
    LET currencyFormat == getAdvancedCurrencyFormat(currency)
        Row(row) == <<SetNumFmt(row, 5, currencyFormat), SetNumFmt(row, 6, currencyFormat),
                      SetNumFmt(row, 7, "0.00%"), SetNumFmt(row, 8, "0.00%"),
                      SetNumFmt(row, 9, "0.00%"), SetNumFmt(row, 10, "0.00%")>>
    IN  ForRows(Row, startRow, lastRow)

\* the currency is detected; the number formats of the clean sheet and of
\* the metrics sheet are set
FormatStep ==
    /\ pc = "format"
    /\ LET cleanLastRow == CleanLastRow(job)
           detectedCurrency == detectCurrencyFromData(ws, job.startRow, job.lastRow)
           currencyFormat == getAdvancedCurrencyFormat(detectedCurrency)
           metricsFormatLastRow == job.uniqueDatesCount
           gmvPerHour == IF job.format = "TIKTOK_LIVESTREAM"
                         THEN NumFmtRows(<<ColumnNumber("AC")>>, currencyFormat, 2,
                                         cleanLastRow)
                         ELSE IF job.format = "SHOPEE_MONTHLY"
                         THEN NumFmtRows(<<ColumnNumber("W")>>, currencyFormat, 2,
                                         cleanLastRow)
                                 \o NumFmtRows(<<ColumnNumber("R")>>, "dd-mm-yyyy", 2,
                                               cleanLastRow)
                         ELSE <<>>
           cleanOps == applyPercentageFormatting(registry, 2, cleanLastRow, job.format)
                         \o applyCurrencyFormatting(registry, 2, cleanLastRow,
                                                    detectedCurrency, job.format)
                         \o applyDurationFormatting(registry, 2, cleanLastRow,
                                                    job.format)
                         \o gmvPerHour
           metricsOps == IF metricsFormatLastRow > 1
                         THEN applyMetricsFormatting(2, metricsFormatLastRow,
                                                     detectedCurrency)
                         ELSE <<>>
       IN  /\ job' = [job EXCEPT !.detectedCurrency = detectedCurrency]
           /\ workbook' =
                 IF cleanLastRow > 1
                 THEN [workbook EXCEPT
                          !.cells["clean data"] = ApplyWrites(@, cleanOps),
                          !.cells["metrics"] = ApplyWrites(@, metricsOps)]
                 ELSE workbook
    /\ steps' = Append(steps, "format")
    /\ pc' = "summary"
    /\ UNCHANGED <<registry, warnings, loaded, ws, call, ret, systemOffset, request>>

summaryHeaders == <<"Metric", "Value">>

summaryMetrics ==
    <<"Avg GMV/Sesi", "Avg GMV/Day", "Avg CTR", "Avg CTOR", "Avg Viewers", "Avg Like",
      "Avg Comment", "Avg Share">>

trendHeaders ==
    <<"Month Index", "Month", "Avg CTR", "Avg CTOR", "Avg Viewers", "Avg Like",
      "Avg Comment", "Avg Share">>

MONTH_MAP_STRING ==
    <<"Jan", "Feb", "Mar", "Apr", "May", "Jun", "Jul", "Aug", "Sep", "Oct", "Nov",
      "Dec">>

\* { formula: undefined }
UndefinedFormula == [t |-> "formula", s |-> "undefined", m |-> 1, e |-> 0]

\* { formula: summaryFormulas[metric] }
SummaryFormula(summaryFormulas, metric) ==
    IF \E i \in 1..Len(summaryFormulas) : summaryFormulas[i].metric = metric
    THEN Formula(summaryFormulas[CHOOSE i \in 1..Len(summaryFormulas) :
                                    summaryFormulas[i].metric = metric].formula)
    ELSE UndefinedFormula

\* B2, B3 as currency, B4, B5 as percentages, B6..B9 as integers
applySummaryFormatting(currency) ==
    <<SetNumFmt(2, 2, getAdvancedCurrencyFormat(currency)),
      SetNumFmt(3, 2, getAdvancedCurrencyFormat(currency)),
      SetNumFmt(4, 2, "0.00%"), SetNumFmt(5, 2, "0.00%"),
      SetNumFmt(6, 2, "#,##0"), SetNumFmt(7, 2, "#,##0"),
      SetNumFmt(8, 2, "#,##0"), SetNumFmt(9, 2, "#,##0")>>

\* the sheet "summary": its headers, the metric names and their formulas
SummaryStep ==
    /\ pc = "summary"
    /\ LET cleanLastRow == CleanLastRow(job)
           summaryFormulas == generateSummaryFormulas(registry, 2, cleanLastRow,
                                                      job.format)
           Metric(index) ==
               <<SetValue(index + 1, 1, Str(summaryMetrics[index])),
                 SetValue(index + 1, 2,
                          SummaryFormula(summaryFormulas, summaryMetrics[index]))>>
           ops == HeaderWrites(summaryHeaders)
                    \o (IF cleanLastRow > 1
                        THEN ForRows(Metric, 1, Len(summaryMetrics))
                                \o applySummaryFormatting(job.detectedCurrency)
                        ELSE <<>>)
       IN  workbook' = [workbook EXCEPT
                           !.names = Append(@, "summary"),
                           !.cells["summary"] = ApplyWrites(@, ops)]
    /\ steps' = Append(steps, "summary")
    /\ pc' = "trend"
    /\ UNCHANGED <<registry, warnings, loaded, ws, call, ret, systemOffset, request,
                   job>>

\* a < b for the texts of two numbers, compared code unit by code unit
RECURSIVE TextLess(_, _)
TextLess(a, b) ==
    IF Len(a) = 0 THEN Len(b) > 0
    ELSE IF Len(b) = 0 THEN FALSE
    ELSE IF Char(a, 1) = Char(b, 1)
         THEN TextLess(SubSeq(a, 2, Len(a)), SubSeq(b, 2, Len(b)))
         ELSE DigitValue(Char(a, 1)) < DigitValue(Char(b, 1))

\* array.sort() without a compare function: the elements in the order of
\* their texts
RECURSIVE sort(_)
sort(array) ==
    IF Len(array) = 0 THEN <<>>
    ELSE LET least == CHOOSE i \in 1..Len(array) :
                         \A j \in 1..Len(array) :
                            j = i \/ TextLess(NatToString(array[i]),
                                              NatToString(array[j]))
             rest == [k \in 1..(Len(array) - 1) |->
                         IF k < least THEN array[k] ELSE array[k + 1]]
         IN  <<array[least]>> \o sort(rest)

\* applyTrendFormatting(worksheet, startRow, lastRow): C and D as percentages
applyTrendFormatting(startRow, lastRow) ==
    NumFmtRows(<<3, 4>>, "0.00%", startRow, lastRow)

\* the sheet "trend": its headers and one row for each month of uniqueMonths
TrendStep ==
    /\ pc = "trend"
    /\ LET cleanLastRow == CleanLastRow(job)
           sortedMonths == sort(job.uniqueMonths)
           Month(index) ==
               <<SetValue(index + 1, 1, Num(sortedMonths[index] + 1)),
                 SetValue(index + 1, 2, Str(MONTH_MAP_STRING[sortedMonths[index] + 1]))>>
                   \o FormulaWrites(generateTrendFormulas(registry, index + 1, 2,
                                                          cleanLastRow, job.format),
                                    index + 1)
           row == IF Len(sortedMonths) = 0 THEN 0 ELSE Len(sortedMonths) + 1
           ops == HeaderWrites(trendHeaders)
                    \o (IF cleanLastRow > 1
                        THEN ForRows(Month, 1, Len(sortedMonths))
                                \o applyTrendFormatting(2, row)
                        ELSE <<>>)
       IN  workbook' = [workbook EXCEPT
                           !.names = Append(@, "trend"),
                           !.cells["trend"] = ApplyWrites(@, ops)]
    /\ steps' = Append(steps, "trend")
    /\ pc' = "serialize"
    /\ UNCHANGED <<registry, warnings, loaded, ws, call, ret, systemOffset, request,
                   job>>

\* await outputWorkbook.xlsx.writeBuffer(); the result is returned
SerializeStep ==
    /\ pc = "serialize"
    /\ steps' = Append(steps, "serialize")
    /\ pc' = "returned"
    /\ UNCHANGED <<registry, warnings, loaded, ws, call, ret, systemOffset, request,
                   job, workbook>>

\* files.length === 1: the workbook is the body of the response
RespondWorkbook ==
    /\ pc = "returned"
    /\ request.files = 1
    /\ request' = [request EXCEPT !.done = 1,
                                  !.response = [status |-> 200, body |-> "xlsx"]]
    /\ pc' = "responded"
    /\ UNCHANGED <<registry, warnings, loaded, ws, call, ret, systemOffset, job,
                   workbook, steps>>

\* files.length === 1 and processExcelFile threw: the outer catch of POST
RespondFailure ==
    /\ pc = "failed"
    /\ request.files = 1
    /\ request' = [request EXCEPT
                      !.done = 1,
                      !.response = [status |-> 500,
                                    body |-> "json: Failed to process Excel files"]]
    /\ pc' = "responded"
    /\ UNCHANGED <<registry, warnings, loaded, ws, call, ret, systemOffset, job,
                   workbook, steps>>

\* where POST goes on after a file of several
AfterFile == IF request.done + 1 < request.files THEN "start" ELSE "zip"

\* several files: processedFiles.push(result)
CollectResult ==
    /\ pc = "returned"
    /\ request.files > 1
    /\ request' = [request EXCEPT
                      !.done = @ + 1,
                      !.processedFiles = Append(@, [kind |-> "workbook", text |-> ""])]
    /\ pc' = AfterFile
    /\ UNCHANGED <<registry, warnings, loaded, ws, call, ret, systemOffset, job,
                   workbook, steps>>

\* several files and processExcelFile threw: the catch inside the loop pushes
\* ERROR_<name>.txt with the message
CollectError ==
    /\ pc = "failed"
    /\ request.files > 1
    /\ request' = [request EXCEPT
                      !.done = @ + 1,
                      !.processedFiles = Append(@, [kind |-> "error", text |-> job.error])]
    /\ pc' = AfterFile
    /\ UNCHANGED <<registry, warnings, loaded, ws, call, ret, systemOffset, job,
                   workbook, steps>>

\* several files: the zip of processedFiles is the body of the response
RespondZip ==
    /\ pc = "zip"
    /\ request' = [request EXCEPT !.response = [status |-> 200, body |-> "zip"]]
    /\ pc' = "responded"
    /\ UNCHANGED <<registry, warnings, loaded, ws, call, ret, systemOffset, job,
                   workbook, steps>>

Init ==
    /\ InitLibrary
    /\ systemOffset \in SystemOffsets

Next ==
    \/ LoadTiktok
    \/ LoadShopee
    \/ \E n \in 0..MaxFiles : Post(n)
    \/ \E w \in PipelineSheets : StartFile(w)
    \/ StartFileNoWorksheet
    \/ DetectFormatStep
    \/ DetectShapeStep
    \/ CopyRawStep
    \/ CleanStep
    \/ DeriveStep
    \/ MetricsStep
    \/ FormatStep
    \/ SummaryStep
    \/ TrendStep
    \/ SerializeStep
    \/ RespondWorkbook
    \/ RespondFailure
    \/ CollectResult
    \/ CollectError
    \/ RespondZip

Spec == Init /\ [][Next]_vars

-----------------------------------------------------------------------------
(* Properties of the registry, the detect probes and the shape detector    *)

Min(S) == CHOOSE x \in S : \A y \in S : x <= y

\* the registry positions whose detect probe matches the worksheet
MatchingPositions(reg, w) == {i \in 1..Len(reg) : Detect(reg[i], w) # NullRow}

\* C1: detectFormat probes the registered definitions in registration order
\* (tiktokFormat, then shopeeFormat) and returns the id and start row of the
\* first one whose probe is non-null; when none matches it returns
\* UNSUPPORTED with start row 2.
C1_FirstMatchInRegistrationOrder ==
    /\ loaded = 2 => SubSeq(registry, 1, 2) = <<"tiktokFormat", "shopeeFormat">>
    /\ call.fn = "detectFormat" =>
          LET hits == MatchingPositions(registry, ws)
          IN  IF hits = {}
              THEN ret.formatId = "UNSUPPORTED" /\ ret.startRow = 2
              ELSE /\ ret.formatId = DefId(registry[Min(hits)])
                   /\ ret.startRow = Detect(registry[Min(hits)], ws)

\* detectFormat ran on a sheet both probes match, and the first registered won
C1_Witness ==
    /\ call.fn = "detectFormat"
    /\ Cardinality(MatchingPositions(registry, ws)) = 2
    /\ ret.formatId = "TIKTOK_LIVESTREAM"
    /\ ret.startRow # shopeeDetect(ws)

\* the ids held by the registry are pairwise different
DistinctIds(reg) ==
    \A i \in 1..Len(reg), j \in 1..Len(reg) : i # j => DefId(reg[i]) # DefId(reg[j])

\* C2: registering a definition whose id is already present leaves the
\* registry's contents and order unchanged (it only warns), so the registry
\* never holds two definitions with the same id.
C2_RegisterIdempotentById ==
    /\ [](DistinctIds(registry))
    /\ [][(call'.fn = "registerExcelFormat" /\ IsRegistered(registry, call'.def))
            => (registry' = registry /\ warnings' = warnings + 1)]_vars

\* another object carrying a registered id was registered again: a warning, no change
C2_Witness ==
    /\ call.fn = "registerExcelFormat"
    /\ call.def = "shopeeMonthlyFormat"
    /\ warnings >= 1
    /\ registry = <<"tiktokFormat", "shopeeFormat">>

\* C3: for every input worksheet at most one registered probe matches
\* (the TikTok probe and the Shopee probe never both match the same input).
C3_NoDoubleMatch ==
    call.fn = "detectFormat" => Cardinality(MatchingPositions(registry, ws)) <= 1

\* the TikTok header test of one row, stated on the cell texts
C4_RowMatches(w, r) ==
    LET a == toLowerCase(ValueToString(getCell(w, r, 1)))
        b == toLowerCase(ValueToString(getCell(w, r, 2)))
        c == toLowerCase(ValueToString(getCell(w, r, 3)))
    IN  /\ OccursIn(a, "livestream") \/ OccursIn(a, "streaming langsung")
        /\ OccursIn(b, "start time") \/ OccursIn(b, "waktu mulai")
        /\ OccursIn(c, "duration") \/ OccursIn(c, "durasi")

\* C4: tiktokFormat.detect returns r + 1 for the smallest row r in 1..10 whose
\* columns A, B, C carry the three markers (case-insensitively), and null when
\* no row in 1..10 does, also when the header stands at row 11 or below.
C4_TiktokDetectSmallestRow ==
    (call.fn = "detect" /\ call.def = "tiktokFormat") =>
        LET rows == {r \in 1..10 : C4_RowMatches(ws, r)}
        IN  IF rows = {} THEN ret.startRow = NullRow
            ELSE ret.startRow = Min(rows) + 1

\* the probe returned null on a sheet whose only header row is row 11
C4_Witness ==
    /\ call.fn = "detect" /\ call.def = "tiktokFormat"
    /\ C4_RowMatches(ws, 11)
    /\ ret.startRow = NullRow

C5_Marker(w, r) ==
    LET a == toLowerCase(ValueToString(getCell(w, r, 1)))
    IN  OccursIn(a, "periode data") \/ OccursIn(a, "data period")

C5_Monthly(w, r) ==
    LET d == toLowerCase(ValueToString(getCell(w, r, 4)))
    IN  OccursIn(d, "nama livestream") \/ OccursIn(d, "livestream")

C5_Daily(w, r) ==
    LET c == toLowerCase(ValueToString(getCell(w, r, 3)))
    IN  /\ OccursIn(c, "penjualan")
        /\ OccursIn(c, "pesanan dibuat") \/ OccursIn(c, "placed order")

\* C5: shopeeFormat.detect takes the smallest row r in 1..10 that carries the
\* periode-data marker in column A and qualifies as a header; it returns r + 1
\* for the monthly variant (column D), otherwise for the daily variant
\* (column C) r + 2 if row r + 1 carries the marker too and r + 1 if not;
\* null when no row in 1..10 qualifies.
C5_ShopeeDetectVariants ==
    (call.fn = "detect" /\ call.def = "shopeeFormat") =>
        LET rows == {r \in 1..10 :
                        C5_Marker(ws, r) /\ (C5_Monthly(ws, r) \/ C5_Daily(ws, r))}
            r == Min(rows)
        IN  IF rows = {} THEN ret.startRow = NullRow
            ELSE IF C5_Monthly(ws, r) THEN ret.startRow = r + 1
            ELSE IF C5_Marker(ws, r + 1) THEN ret.startRow = r + 2
            ELSE ret.startRow = r + 1

\* the probe skipped a secondary header row below a daily header
C5_Witness ==
    /\ call.fn = "detect" /\ call.def = "shopeeFormat"
    /\ \E r \in 1..10 :
          /\ C5_Daily(ws, r) /\ ~C5_Monthly(ws, r) /\ C5_Marker(ws, r)
          /\ C5_Marker(ws, r + 1)
          /\ ret.startRow = r + 2

\* a cell that is null or the empty string
C6_IsEmpty(v) == v.t = "null" \/ (v.t = "str" /\ v.s = "")

\* C6: given start row s, detectDataLength returns startRow = s and
\* lastRow = e - 1, e being the smallest row >= s whose cells A and B are
\* both empty (null or the empty string), and only such a row ends the data.
C6_LastRowBeforeFirstEmptyRow ==
    (call.fn = "detectDataLength" /\ call.startRow # NullRow) =>
        LET s == call.startRow
            e == Min({r \in s..(Len(ws) + s) :
                        C6_IsEmpty(getCell(ws, r, 1)) /\ C6_IsEmpty(getCell(ws, r, 2))})
        IN  ret.startRow = s /\ ret.lastRow = e - 1

\* C7: the shape returned by detectDataLength satisfies
\* lastRow >= startRow - 1, the empty dataset being lastRow = startRow - 1.
C7_LastRowAtLeastStartMinusOne ==
    call.fn = "detectDataLength" =>
        /\ ret.lastRow >= ret.startRow - 1
        /\ (ret.lastRow = ret.startRow - 1) <=>
             (IsEmptyAnchor(getCell(ws, ret.startRow, 1))
                /\ IsEmptyAnchor(getCell(ws, ret.startRow, 2)))

\* an empty dataset was detected
C7_Witness ==
    /\ call.fn = "detectDataLength"
    /\ ret.lastRow = ret.startRow - 1

-----------------------------------------------------------------------------
(* Properties of cleanAndCopyData and of the orchestrator                  *)

\* the step has been completed for the current file
Completed(step) == \E i \in 1..Len(steps) : steps[i] = step

\* the rows of a sheet that hold a cell
RowsOf(sheet) == {k[1] : k \in DOMAIN sheet}

\* the value of a raw cell cleaned by the rule of its column, text when the
\* column has no rule
C8_Cleaned(d, colIndex, rawValue) ==
    LET rule == CleaningRule(d, colIndex)
    IN  CASE rule = "currency" -> cleanCurrencyValue(rawValue)
          [] rule = "percentage" -> cleanPercentageValue(rawValue)
          [] rule = "numeric" -> cleanNumericValue(rawValue)
          [] rule = "duration" -> cleanDurationValue(rawValue)
          [] rule \in {"text", ""} -> cleanTextValue(rawValue)

\* C8: once cleanAndCopyData has run over [startRow, lastRow], row 1 of the
\* clean sheet holds the canonical headers of the format, clean cell
\* (2 + (r - startRow), i) holds source cell (r, i) cleaned by the rule of
\* column i (text when none is assigned), each written once, and the sheet
\* holds exactly the N = lastRow - startRow + 1 data rows 2..N+1.
C8_CleanRowsMapSourceRows ==
    Completed("clean") =>
        LET clean == workbook.cells["clean data"]
            headers == Headers(getFormatDefinition(registry, job.format))
            d == getFormatDefinition(registry, job.format)
            N == job.lastRow - job.startRow + 1
        IN  /\ \A i \in 1..Len(headers) :
                  cellAt(clean, 1, i).value = Str(headers[i])
            /\ \A r \in job.startRow..job.lastRow : \A i \in 1..Len(headers) :
                  /\ cellAt(clean, 2 + (r - job.startRow), i).value
                        = C8_Cleaned(d, i - 1, getCell(ws, r, i))
                  /\ cellAt(clean, 2 + (r - job.startRow), i).writes = 1
            /\ RowsOf(clean) = 1..(N + 1)

\* two source rows below a header in row 2 have been cleaned: the second,
\* source row 4, stands in clean row 3
C8_Witness ==
    /\ pc = "derive"
    /\ job.startRow = 3
    /\ job.lastRow = 4
    /\ getCell(ws, 4, 1) = Str(" Live B ")
    /\ cellAt(workbook.cells["clean data"], 3, 1).value = Str("Live B")
    /\ cellAt(workbook.cells["clean data"], 3, 5).value = Num(180050)

\* C9: when no registered format matches the input, processExcelFile ends
\* with the error right after format detection: no normalization and no
\* aggregation step runs, no output workbook exists, not even an empty one,
\* and the caller gets the error: status 500 for a single file, an error
\* entry with the message in place of a workbook for one file of several.
C9_UnsupportedAbortsBeforeNormalization ==
    job.format = "UNSUPPORTED" =>
        /\ steps = <<"read", "detectFormat">>
        /\ workbook = NoWorkbook
        /\ job.error = UnsupportedMessage
        /\ pc \in {"failed", "responded", "start", "zip"}
        /\ (request.files = 1 /\ pc = "responded") =>
              request.response = [status |-> 500,
                                  body |-> "json: Failed to process Excel files"]
        /\ (request.files > 1 /\ pc # "failed") =>
              /\ Len(request.processedFiles) = request.done
              /\ request.processedFiles[request.done]
                    = [kind |-> "error", text |-> UnsupportedMessage]

\* the second of two files is of no supported format; the response has been
\* sent
C9_Witness ==
    /\ job.format = "UNSUPPORTED"
    /\ request.files = 2
    /\ pc = "responded"
    /\ request.processedFiles[1].kind = "workbook"
    /\ request.processedFiles[2].kind = "error"

\* the cells of an output sheet outside its row 1
BelowHeader(sheet) == {k \in DOMAIN sheet : k[1] > 1}

\* row 1 of the sheet holds exactly the texts of `headers` from column
\* `first` on, each written once and without a number format
HeaderRowIs(sheet, first, headers) ==
    \A i \in 1..Len(headers) :
        cellAt(sheet, 1, first + i - 1) = [value |-> Str(headers[i]), numFmt |-> "",
                                          writes |-> 1]

\* C10: when shape detection ends at startRow itself (lastRow = startRow - 1)
\* processExcelFile does not fail, and the sheets it fills (clean data,
\* metrics, summary, trend) are produced with their header row only: no
\* derived-column cell, no metrics row, no summary row and no trend row is
\* written; the sheet "raw data" is the copy of the input.
C10_EmptyDatasetHeadersOnly ==
    (job.startRow # NullRow /\ job.lastRow = job.startRow - 1) =>
        /\ pc # "failed"
        /\ job.error = ""
        /\ \A n \in SheetNames \ {"raw data"} : BelowHeader(workbook.cells[n]) = {}
        /\ Completed("copyRaw") => workbook.cells["raw data"] = RawCopy(ws)
        /\ Completed("serialize") =>
              /\ workbook.names = <<"raw data", "clean data", "metrics", "summary",
                                    "trend">>
              /\ LET d == getFormatDefinition(registry, job.format)
                     clean == workbook.cells["clean data"]
                 IN  /\ HeaderRowIs(clean, 1, Headers(d))
                     /\ HeaderRowIs(clean, Len(Headers(d)) + 1,
                                    IF job.format = "SHOPEE_MONTHLY"
                                    THEN shopeeNewRawDataHeaders
                                    ELSE tiktokNewRawDataHeaders)
                     /\ Cardinality(DOMAIN clean) = Len(Headers(d)) + 6
              /\ HeaderRowIs(workbook.cells["metrics"], 1, metricsHeaders)
              /\ Cardinality(DOMAIN workbook.cells["metrics"]) = Len(metricsHeaders)
              /\ HeaderRowIs(workbook.cells["summary"], 1, summaryHeaders)
              /\ Cardinality(DOMAIN workbook.cells["summary"]) = Len(summaryHeaders)
              /\ HeaderRowIs(workbook.cells["trend"], 1, trendHeaders)
              /\ Cardinality(DOMAIN workbook.cells["trend"]) = Len(trendHeaders)

\* a file whose row at startRow is blank, with a data row below it, has
\* been answered with its workbook
C10_Witness ==
    /\ pc = "responded"
    /\ request.files = 1
    /\ request.response.status = 200
    /\ job.startRow # NullRow
    /\ job.lastRow = job.startRow - 1
    /\ Len(ws) > job.startRow
    /\ getCell(ws, job.startRow + 1, 1) # Null

-----------------------------------------------------------------------------
(* Properties of the metrics, summary and trend sheets                     *)

\* the column of the clean sheet that holds the date of a row: R (Start Date)
\* for Shopee, B (Start time) for TikTok
C11_DateColumn == IF job.format = "SHOPEE_MONTHLY" THEN "R" ELSE "B"

\* the calendar date written in the date column of a clean row: the text
\* before the time part, "" when the cell holds no text or a text that is no
\* date
C11_DateOfRow(row) ==
    IF cellAt(workbook.cells["clean data"], row, ColumnNumber(C11_DateColumn)).value.t
         = "str"
       /\ ParseDate(cellAt(workbook.cells["clean data"], row,
                           ColumnNumber(C11_DateColumn)).value.s, systemOffset).valid
    THEN split(cellAt(workbook.cells["clean data"], row,
                      ColumnNumber(C11_DateColumn)).value.s, " ")[1]
    ELSE ""

\* the distinct calendar dates of the clean rows
C11_Dates == {C11_DateOfRow(row) : row \in 2..CleanLastRow(job)} \ {""}

\* the range of the start-date column over all the clean rows, as the
\* formulas name it
C11_StartDateRange(column) ==
    "'clean data'!$" \o column \o "$2:$" \o column \o "$"
        \o NatToString(CleanLastRow(job))

\* the formula rows of the metrics sheet: the rows below the header row that
\* hold a session count (column D); the list of the dates is one formula,
\* in B2
C11_MetricsRows ==
    {k[1] : k \in {c \in DOMAIN workbook.cells["metrics"] : c[2] = ColumnNumber("D")}}
        \ {1}

\* C11: the metrics sheet receives one formula row for each distinct
\* calendar date of the clean data, D dates giving the rows 2..D+1 and no
\* other row, and the session count of each row (column D) counts the clean
\* rows whose start date is the date of the row (column B), over the start
\* dates of all clean rows.
C11_OneMetricsRowPerDate ==
    (Completed("metrics") /\ CleanLastRow(job) > 1) =>
        /\ C11_MetricsRows = 2..(Cardinality(C11_Dates) + 1)
        /\ job.uniqueDatesCount = Cardinality(C11_Dates)
        /\ \A row \in C11_MetricsRows :
              /\ cellAt(workbook.cells["metrics"], row, ColumnNumber("D")).value
                    = Formula("COUNTIF("
                                \o C11_StartDateRange(IF job.format = "SHOPEE_MONTHLY"
                                                      THEN "R" ELSE "X")
                                \o ",B" \o NatToString(row) \o ")")
              /\ \A col \in {"A", "C", "E", "F"} :
                    cellAt(workbook.cells["metrics"], row, ColumnNumber(col)).value.t
                      = "formula"
              /\ (cellAt(workbook.cells["metrics"], row, ColumnNumber("B")).value.t
                    = "formula") <=> (row = 2)

\* two clean rows share one date: the metrics sheet has the one formula
\* row 2
C11_Witness ==
    /\ pc = "format"
    /\ CleanLastRow(job) = 3
    /\ C11_DateOfRow(2) = C11_DateOfRow(3)
    /\ C11_DateOfRow(2) # ""
    /\ C11_MetricsRows = {2}

\* a cell of the metrics row joins the start times of the clean rows of the
\* date of the row whose gross revenue is the maximum of that date:
\* TEXTJOIN over the start-time range filtered by the start date and by the
\* gross revenue
C12_HasPrimeTimeLabel(row) ==
    \E k \in DOMAIN workbook.cells["metrics"] :
        /\ k[1] = row
        /\ workbook.cells["metrics"][k].value.t = "formula"
        /\ includes(workbook.cells["metrics"][k].value.s, "TEXTJOIN(")
        /\ includes(workbook.cells["metrics"][k].value.s, C11_StartDateRange("Y"))
        /\ includes(workbook.cells["metrics"][k].value.s, C11_StartDateRange("X"))
        /\ includes(workbook.cells["metrics"][k].value.s, C11_StartDateRange("D"))

\* C12: for TikTok every per-date metrics row holds a prime-time label, the
\* join of the start times of all rows of the date whose gross revenue is
\* the maximum of the date (so that rows that tie are all included).
C12_TiktokPrimeTimeLabel ==
    (Completed("metrics") /\ job.format = "TIKTOK_LIVESTREAM") =>
        \A row \in C11_MetricsRows : C12_HasPrimeTimeLabel(row)

\* the formula text is an error-tolerant fallback around its aggregate
C13_IsWrapped(formula) ==
    \/ (Len(formula) >= 8 /\ SubSeq(formula, 1, 8) = "IFERROR(")
    \/ (Len(formula) >= 5 /\ SubSeq(formula, 1, 5) = "IFNA(")
    \/ includes(formula, "IFERROR(MEDIAN(")

\* C13: every median aggregate written into the metrics sheet is wrapped in
\* an error-tolerant fallback, so that a median over an empty filtered set
\* gives an empty or zero value and no error.
C13_MediansAreWrapped ==
    Completed("metrics") =>
        \A k \in DOMAIN workbook.cells["metrics"] :
            (/\ workbook.cells["metrics"][k].value.t = "formula"
             /\ includes(workbook.cells["metrics"][k].value.s, "MEDIAN("))
                => C13_IsWrapped(workbook.cells["metrics"][k].value.s)

\* the name of the "average per day" statistic of the format of the job
C14_PerDayMetric ==
    IF job.format = "SHOPEE_MONTHLY" THEN "Avg Sales/Day" ELSE "Avg GMV/Day"

\* the formulas generateSummaryFormulas returns for the job under that name
C14_PerDayFormulas ==
    {generateSummaryFormulas(registry, 2, CleanLastRow(job), job.format)[i].formula :
        i \in {j \in 1..Len(generateSummaryFormulas(registry, 2, CleanLastRow(job),
                                                      job.format)) :
                  generateSummaryFormulas(registry, 2, CleanLastRow(job),
                                          job.format)[j].metric = C14_PerDayMetric}}

\* the columns of the metrics sheet whose cell of row 2 sums the gross
\* revenue of the clean rows of the date of the row
C14_SumColumns ==
    {col \in {"E", "F", "G", "H", "I"} :
        cellAt(workbook.cells["metrics"], 2, ColumnNumber(col)).value
          = Formula("SUMIFS("
                      \o buildDataRanges(registry, 2, CleanLastRow(job),
                                         job.format).grossR
                      \o ","
                      \o buildDataRanges(registry, 2, CleanLastRow(job),
                                         job.format).startDateR
                      \o ",B2)")}

\* C14: for each supported format the "average per day" statistic that
\* generateSummaryFormulas returns is the average of the column of the
\* metrics sheet that holds the per-date sum of the format; it names that
\* column and no range of the clean data.
C14_PerDayAveragesMetricsSumColumn ==
    (Completed("metrics") /\ CleanLastRow(job) > 1 /\ job.uniqueDatesCount >= 1) =>
        /\ Cardinality(C14_SumColumns) = 1
        /\ C14_PerDayFormulas
             = {"ROUND(AVERAGE(metrics!" \o col \o ":" \o col \o "),0)" :
                   col \in C14_SumColumns}
        /\ \A formula \in C14_PerDayFormulas : ~includes(formula, "clean data")

\* a Shopee job: the per-date sum stands in column H of the metrics sheet
C14_Witness ==
    /\ Completed("summary")
    /\ job.format = "SHOPEE_MONTHLY"
    /\ CleanLastRow(job) = 3
    /\ C14_SumColumns = {"H"}
    /\ C14_PerDayFormulas = {"ROUND(AVERAGE(metrics!H:H),0)"}

\* the formulas generateSummaryFormulas returns for the job, as cell values
C15_GeneratedFormulas ==
    {Formula(generateSummaryFormulas(registry, 2, CleanLastRow(job),
                                     job.format)[i].formula) :
        i \in 1..Len(generateSummaryFormulas(registry, 2, CleanLastRow(job),
                                             job.format))}

\* C15: for TikTok and for Shopee, and every dataset that is not empty, the
\* summary sheet holds the eight named statistics in its rows 2..9 in their
\* fixed order, and the formula written beside each label is defined: it is
\* one of the formulas generateSummaryFormulas returns for the format.
C15_SummaryRowsHaveFormulas ==
    (Completed("summary") /\ CleanLastRow(job) > 1) =>
        /\ RowsOf(workbook.cells["summary"]) = 1..(Len(summaryMetrics) + 1)
        /\ Len(summaryMetrics) = 8
        /\ \A index \in 1..Len(summaryMetrics) :
              /\ cellAt(workbook.cells["summary"], index + 1, 1).value
                    = Str(summaryMetrics[index])
              /\ cellAt(workbook.cells["summary"], index + 1, 2).value
                    # UndefinedFormula
              /\ cellAt(workbook.cells["summary"], index + 1, 2).value
                    \in C15_GeneratedFormulas

\* the distinct month indexes the scan of the date column met
C16_Months == {job.uniqueMonths[i] : i \in 1..Len(job.uniqueMonths)}

\* C16: the trend sheet gets one row for each distinct month met in the
\* dataset, rows 2..M+1 for M months, and the rows stand in the numeric
\* ascending order of the month (column A holds the month index plus one).
C16_TrendRowsAscendingByMonth ==
    (Completed("trend") /\ CleanLastRow(job) > 1) =>
        /\ RowsOf(workbook.cells["trend"]) \ {1} = 2..(Cardinality(C16_Months) + 1)
        /\ {cellAt(workbook.cells["trend"], row, 1).value :
                row \in 2..(Cardinality(C16_Months) + 1)}
             = {Num(month + 1) : month \in C16_Months}
        /\ \A row \in 2..Cardinality(C16_Months) :
              cellAt(workbook.cells["trend"], row, 1).value.m
                < cellAt(workbook.cells["trend"], row + 1, 1).value.m

-----------------------------------------------------------------------------
(* Properties of the value cleaners                                        *)

\* the value a cleaner was called with
CleanerInput == getCell(ws, 1, 1)

\* C17: cleanCurrencyValue gives the same magnitude, that of the number 1500
\* it returns unchanged, for "Rp1.500.000", for "$1,500.00" and for 1500.
C17_SameMagnitude ==
    (/\ call.fn = "cleanCurrencyValue"
     /\ CleanerInput \in {Str("Rp1.500.000"), Str("$1,500.00"), Num(1500)})
        => ret.value = Num(1500)

\* the number a percentage text holds: the text without its percent signs
\* and spaces, a comma read as the decimal point
C18_Parsed(str) ==
    parseFloat(RemoveChars(ReplaceChar(RemoveChars(str, {"%"}), ",", "."), {" "}))

\* the number value a is b times the number value c
C18_IsMultiple(a, b, c) ==
    Numerator(a) * Denominator(c) = b * Numerator(c) * Denominator(a)

\* C18: cleanPercentageValue returns the parsed number divided by 100 when
\* the text holds a percent sign, the parsed number itself when it holds
\* none, and 0 when no number can be parsed; a number is returned as it is.
\* "15%" gives 0.15, "0.15" gives 0.15, "abc" gives 0.
C18_PercentSignDividesBy100 ==
    call.fn = "cleanPercentageValue" =>
        /\ CleanerInput.t = "num" => ret.value = CleanerInput
        /\ CleanerInput.t = "null" => ret.value = Num(0)
        /\ CleanerInput.t = "str" =>
              /\ C18_Parsed(CleanerInput.s).nan => ret.value = Num(0)
              /\ (~C18_Parsed(CleanerInput.s).nan /\ includes(CleanerInput.s, "%"))
                    => C18_IsMultiple(C18_Parsed(CleanerInput.s).value, 100, ret.value)
              /\ (~C18_Parsed(CleanerInput.s).nan /\ ~includes(CleanerInput.s, "%"))
                    => ret.value = C18_Parsed(CleanerInput.s).value
        /\ CleanerInput = Str("15%") => ret.value = Dec(15, 2)
        /\ CleanerInput = Str("0.15") => ret.value = Dec(15, 2)
        /\ CleanerInput = Str("abc") => ret.value = Num(0)

\* a text with a percent sign and a decimal comma has been cleaned
C18_Witness ==
    /\ call.fn = "cleanPercentageValue"
    /\ CleanerInput = Str("12,5 %")
    /\ ret.value = Dec(125, 3)

\* the text has the form H:MM:SS: three runs of digits between two colons
C19_IsTimeText(str) ==
    /\ Len(split(str, ":")) = 3
    /\ \A i \in 1..3 : /\ Len(split(str, ":")[i]) > 0
                        /\ IsDigits(split(str, ":")[i], Len(split(str, ":")[i]))

\* the seconds a text of the form H:MM:SS stands for
C19_Seconds(str) ==
    3600 * parseInt(split(str, ":")[1]).n + 60 * parseInt(split(str, ":")[2]).n
        + parseInt(split(str, ":")[3]).n

\* the number value is a number of hundredths, and none is nearer to
\* seconds / 3600: |hundredths / 100 - seconds / 3600| <= 1 / 200
C19_IsRoundedHours(v, seconds) ==
    /\ (100 * Numerator(v)) % Denominator(v) = 0
    /\ 36 * ((100 * Numerator(v)) \div Denominator(v)) - seconds <= 18
    /\ seconds - 36 * ((100 * Numerator(v)) \div Denominator(v)) <= 18

\* C19: cleanDurationValue gives, for every text of the form H:MM:SS, the
\* hours H + M/60 + S/3600 rounded to two decimals ("4:02:02" gives 4.03);
\* it returns a number as it is, reads any other text as cleanNumericValue
\* reads it, and gives 0 when nothing can be parsed.
C19_DurationInRoundedHours ==
    call.fn = "cleanDurationValue" =>
        /\ CleanerInput.t = "num" => ret.value = CleanerInput
        /\ CleanerInput.t = "null" => ret.value = Num(0)
        /\ (CleanerInput.t = "str" /\ C19_IsTimeText(CleanerInput.s))
              => C19_IsRoundedHours(ret.value, C19_Seconds(CleanerInput.s))
        /\ (CleanerInput.t = "str" /\ ~C19_IsTimeText(CleanerInput.s))
              => ret.value = cleanNumericValue(CleanerInput)
        /\ CleanerInput = Str("4:02:02") => ret.value = Dec(403, 2)
        /\ CleanerInput \in {Str("abc"), Str("x:00:00"), Str("")} => ret.value = Num(0)

\* the duration of the claim has been cleaned
C19_Witness ==
    /\ call.fn = "cleanDurationValue"
    /\ CleanerInput = Str("4:02:02")
    /\ C19_Seconds(CleanerInput.s) = 14522
    /\ ret.value = Dec(403, 2)

\* the text holds no digit, so that no number can be read from it
C25_HasNoDigit(str) == \A i \in 1..Len(str) : ~IsDigit(Char(str, i))

\* C25: every value cleaner returns a canonical value for every raw cell
\* value, a number, a text or an absent value: the currency, percentage,
\* numeric and duration cleaners a number, the text cleaner a text; a value
\* that cannot be parsed gives 0, an absent value 0 or the empty text.
C25_CleanersAreTotal ==
    /\ call.fn \in {"cleanCurrencyValue", "cleanPercentageValue", "cleanNumericValue",
                     "cleanDurationValue"} =>
          /\ ret.value.t = "num"
          /\ CleanerInput.t = "null" => ret.value = Num(0)
          /\ (CleanerInput.t = "str" /\ C25_HasNoDigit(CleanerInput.s))
                => ret.value = Num(0)
    /\ call.fn = "cleanTextValue" =>
          /\ ret.value.t = "str"
          /\ CleanerInput.t = "null" => ret.value = Str("")

\* a text that is no number has been cleaned as a number
C25_Witness ==
    /\ call.fn = "cleanNumericValue"
    /\ CleanerInput = Str("n/a")
    /\ ret.value = Num(0)

-----------------------------------------------------------------------------
(* Properties of the Shopee start date *)

\* the source cell the start date of a clean row is taken from: Periode Data
\* (A) of a daily export, Start Time (E) of a monthly one
C20_SourceValue(row) ==
    getCell(ws, job.startRow + (row - 2),
            IF IsShopeeDaily(ws, job.format, job.startRow) THEN 1 ELSE 5)

\* the text opens with a date DD-MM-YYYY, a time may follow it
C20_IsDateText(str) ==
    /\ Len(split(split(str, " ")[1], "-")) = 3
    /\ IsDigits(split(split(str, " ")[1], "-")[1], 2)
    /\ IsDigits(split(split(str, " ")[1], "-")[2], 2)
    /\ IsDigits(split(split(str, " ")[1], "-")[3], 4)

\* the calendar day a source value denotes, as YYYY-MM-DD: the day of a
\* DD-MM-YYYY text, the day of an Excel serial number (day 25569 is
\* 1970-01-01)
C20_SourceDay(v) ==
    IF v.t = "str"
    THEN split(split(v.s, " ")[1], "-")[3] \o "-" \o split(split(v.s, " ")[1], "-")[2]
             \o "-" \o split(split(v.s, " ")[1], "-")[1]
    ELSE IsoDateInZone((Floor(v) - 25569) * 1440, 0)

\* C20: the start date (R) of every clean row of a Shopee export is the
\* calendar day its source value denotes, whether the source holds an Excel
\* serial number or a DD-MM-YYYY text, with or without a time, and whatever
\* the zone of the server.
C20_StartDateIsSourceDay ==
    (Completed("derive") /\ pc # "failed" /\ job.format = "SHOPEE_MONTHLY") =>
        \A row \in 2..CleanLastRow(job) :
            (\/ C20_SourceValue(row).t = "num"
             \/ C20_SourceValue(row).t = "str" /\ C20_IsDateText(C20_SourceValue(row).s))
                => cellAt(workbook.cells["clean data"], row, ColumnNumber("R")).value
                      = Str(C20_SourceDay(C20_SourceValue(row)))

\* C21: a Shopee date field that is no serial number and no DD-MM-YYYY text
\* gives the empty string as start date (R) of its clean row, and the
\* derivation of the start dates raises no error.
C21_UnrecognizedDateGivesEmpty ==
    (Completed("derive") /\ job.format = "SHOPEE_MONTHLY") =>
        /\ job.error # "Invalid time value"
        /\ \A row \in 2..CleanLastRow(job) :
              (C20_SourceValue(row).t = "str" /\ ~C20_IsDateText(C20_SourceValue(row).s))
                 => cellAt(workbook.cells["clean data"], row, ColumnNumber("R")).value
                       = Str("")

-----------------------------------------------------------------------------
(* Properties of the writer of the output sheets *)

\* C22: while a file is processed, the value or the formula of every cell of
\* every output sheet is assigned at most once.
C22_CellsWrittenOnce ==
    \A name \in SheetNames :
        \A k \in DOMAIN workbook.cells[name] : workbook.cells[name][k].writes <= 1

\* the place of a step in the order detect format, detect shape, normalize,
\* aggregate by day, summary and month, format cells, serialize; reading the
\* file comes first
C23_ClaimedRank(step) ==
    CASE step = "read" -> 0
      [] step = "detectFormat" -> 1
      [] step = "detectShape" -> 2
      [] step \in {"copyRaw", "clean", "derive"} -> 3
      [] step = "metrics" -> 4
      [] step = "summary" -> 5
      [] step = "trend" -> 6
      [] step = "format" -> 7
      [] step = "serialize" -> 8

C23_CodeOrder ==
    <<"read", "detectFormat", "detectShape", "copyRaw", "clean", "derive", "metrics",
      "format", "summary", "trend", "serialize">>

-----------------------------------------------------------------------------
(* Properties of the derived columns of the Shopee monthly variant *)

\* the input row a clean row is copied from
C24_RawRow(row) == job.startRow + (row - 2)

\* the quotient of cell D of the clean row by the duration (F) of its input
\* row in hours, 0 when the duration is not above 0 or the quotient fails
C24_GuardedQuotient(row) ==
    "IFERROR(IF('raw data'!F" \o NatToString(C24_RawRow(row)) \o ">0,IF(ISNUMBER('raw data'!F"
        \o NatToString(C24_RawRow(row)) \o "),D" \o NatToString(row) \o "/('raw data'!F"
        \o NatToString(C24_RawRow(row)) \o "/3600),D" \o NatToString(row) \o "/('raw data'!F"
        \o NatToString(C24_RawRow(row)) \o "*24)),0),0)"

\* C24: in the monthly (livestream) variant the revenue per hour (W) of every
\* clean row is the guarded quotient of the GMV shipped of that row by its
\* duration in hours: the formula divides cell D of the clean row, and cell
\* D holds the amount of Penjualan(Pesanan Siap Dikirim), column Q of a
\* monthly export, of the input row.
C24_GmvPerHourOfShippedSales ==
    (Completed("derive") /\ pc # "failed" /\ job.format = "SHOPEE_MONTHLY"
        /\ ~job.isShopeeDailyFormat) =>
        \A row \in 2..CleanLastRow(job) :
            /\ cellAt(workbook.cells["clean data"], row, ColumnNumber("W")).value
                  = Formula(C24_GuardedQuotient(row))
            /\ cellAt(workbook.cells["clean data"], row, ColumnNumber("D")).value
                  = cleanCurrencyValue(getCell(ws, C24_RawRow(row), ColumnNumber("Q")))

-----------------------------------------------------------------------------
(* Properties of the keys of the trend sheet *)

\* the number the month column of a clean row (AB = MONTH(X), V = MONTH(R))
\* holds: the month of the date of the row, 0 when the row has no date
\* YYYY-MM-DD
C26_MonthOfRow(row) ==
    IF ParseDate(C11_DateOfRow(row), systemOffset).valid
    THEN parseInt(split(C11_DateOfRow(row), "-")[2]).n
    ELSE 0

\* the months the month column holds over the clean rows
C26_CleanMonths == {C26_MonthOfRow(row) : row \in 2..CleanLastRow(job)} \ {0}

\* the keys in column A of the trend sheet
C26_TrendKeys ==
    {cellAt(workbook.cells["trend"], row, 1).value :
        row \in RowsOf(workbook.cells["trend"]) \ {1}}

\* C26: the keys of the trend sheet are the values the month column of the
\* clean data holds: every key is the month of some clean row and every
\* month of a clean row is a key, so that the filter of a trend row on its
\* key selects the clean rows of that month.
C26_TrendKeysAreCleanMonths ==
    (Completed("trend") /\ CleanLastRow(job) > 1) =>
        C26_TrendKeys = {Num(m) : m \in C26_CleanMonths}

-----------------------------------------------------------------------------
(* Properties of the layout of the metrics sheet *)

\* C27: every row of the metrics sheet that holds formulas, the rows 2..D+1
\* of D distinct dates, also with D = 1, has the display formats of the
\* metrics: the currency format in E and F, the percentage format in G..J.
C27_FormulaRowsAreFormatted ==
    (Completed("format") /\ CleanLastRow(job) > 1) =>
        \A row \in C11_MetricsRows :
            /\ \A col \in {"E", "F"} :
                  cellAt(workbook.cells["metrics"], row, ColumnNumber(col)).numFmt
                     = getAdvancedCurrencyFormat(job.detectedCurrency)
            /\ \A col \in {"G", "H", "I", "J"} :
                  cellAt(workbook.cells["metrics"], row, ColumnNumber(col)).numFmt
                     = "0.00%"

\* the aggregate function a header of the metrics sheet names
C28_Aggregate(header) ==
    CASE header = "Day" -> "TEXT("
      [] header = "Date" -> "UNIQUE("
      [] header = "Week" -> "XLOOKUP("
      [] header = "Jumlah Sesi" -> "COUNTIF("
      [] header \in {"Avg Revenue", "AVG CTR", "AVG CTOR", "Avg, view duration"}
            -> "AVERAGEIFS("
      [] header \in {"Sum", "Sum Share", "Sum Comment", "Sum Likes", "sum Viewers"}
            -> "SUMIFS("
      [] header \in {"Median CTR", "Median CTOR", "Median GMV/1K shows"} -> "MEDIAN("
      [] OTHER -> "?"

\* C28: the header row and the formula rows of the metrics sheet are
\* aligned, whatever the format: every column that holds a formula has a
\* header in row 1, and the formula computes the aggregate the header
\* names.
C28_HeadersAlignWithFormulas ==
    (Completed("metrics") /\ CleanLastRow(job) > 1) =>
        \A k \in DOMAIN workbook.cells["metrics"] :
            (k[1] >= 2 /\ workbook.cells["metrics"][k].value.t = "formula") =>
                /\ cellAt(workbook.cells["metrics"], 1, k[2]).value.t = "str"
                /\ includes(workbook.cells["metrics"][k].value.s,
                            C28_Aggregate(cellAt(workbook.cells["metrics"], 1,
                                                 k[2]).value.s))

-----------------------------------------------------------------------------
(* Properties of the Shopee variant *)

\* the header rows shopeeFormat.detect accepts: the marker in column A and
\* the mark of a variant in column D or C
C29_HeaderRows ==
    {r \in 1..ShopeeScanRows :
        C5_Marker(ws, r) /\ (C5_Monthly(ws, r) \/ C5_Daily(ws, r))}

\* C29: for every input detected as Shopee the variant the orchestrator
\* works with is the variant of the branch of shopeeFormat.detect that gave
\* the start row: daily exactly when the header row the probe accepted is no
\* monthly header, also when a secondary header row follows a daily header.
C29_VariantOfDetectBranch ==
    (Completed("derive") /\ job.format = "SHOPEE_MONTHLY" /\ C29_HeaderRows # {}) =>
        job.isShopeeDailyFormat = ~C5_Monthly(ws, Min(C29_HeaderRows))

-----------------------------------------------------------------------------
(* Properties of the viewer averages *)

\* the column of the clean data that holds the viewer counts: "Viewers" of a
\* TikTok export, "Penonton" of a Shopee export
C30_ViewersColumn == IF job.format = "SHOPEE_MONTHLY" THEN "I" ELSE "M"

\* C30: for each format the "Avg Viewers" statistic of the summary sheet and
\* the "Avg Viewers" column (E) of the trend sheet average the same column
\* of the clean data, the one that holds the viewer counts.
C30_AvgViewersOfViewersColumn ==
    (Completed("trend") /\ CleanLastRow(job) > 1) =>
        /\ cellAt(workbook.cells["clean data"], 1, ColumnNumber(C30_ViewersColumn)).value
              \in {Str("Viewers"), Str("Penonton")}
        /\ cellAt(workbook.cells["summary"], 6, 1).value = Str("Avg Viewers")
        /\ cellAt(workbook.cells["summary"], 6, 2).value
              = Formula("ROUND(AVERAGE(" \o C11_StartDateRange(C30_ViewersColumn)
                          \o "),0)")
        /\ cellAt(workbook.cells["trend"], 1, ColumnNumber("E")).value = Str("Avg Viewers")
        /\ \A row \in RowsOf(workbook.cells["trend"]) \ {1} :
              cellAt(workbook.cells["trend"], row, ColumnNumber("E")).value
                = Formula("ROUND(AVERAGEIFS(" \o C11_StartDateRange(C30_ViewersColumn)
                            \o ","
                            \o buildDataRanges(registry, 2, CleanLastRow(job),
                                               job.format).montIndex
                            \o ",A" \o NatToString(row) \o "),0)")

====
